---- MODULE Spec2Model ----
(***************************************************************************)
(* Intelligent RTL Management (Obsidian plugin): a state-machine model of  *)
(* the direction classifier (rtl-text-detector.js), the per-region         *)
(* direction resolution, the observer bookkeeping and the reconciliation   *)
(* handlers of the plugin class (main.ts).                                 *)
(*                                                                         *)
(* Text is a sequence of UTF-16 code units (integers).  A DOM element is a *)
(* record of the attributes the plugin reads and writes.  Every handler of *)
(* the plugin is one action; handlers that await (onload, setNoteDirection)*)
(* are split at their await.                                               *)
(***************************************************************************)
EXTENDS Integers, Sequences, FiniteSets, TLC

(***************************************************************************)
(* Bounds of the model.                                                    *)
(***************************************************************************)
MaxEditors == 2
MaxCards == 1
MaxWrites == 2
MaxNotifications == 3
MaxTextLen == 3

(***************************************************************************)
(* ---------------------------  rtl-text-detector.js  -------------------- *)
(***************************************************************************)

\* The '-' of the range patterns.
Hyphen == 45

\* /\u0590-\u05FF/ and the five Arabic patterns: written without a character
\* class, so each regular expression is the literal three-unit sequence
\* <first> '-' <last>.
HEBREW_RANGES == << <<1424, Hyphen, 1535>> >>
ARABIC_RANGES == << <<1536, Hyphen, 1791>>, <<1872, Hyphen, 1919>>,
                    <<2208, Hyphen, 2303>>, <<64336, Hyphen, 65023>>,
                    <<65136, Hyphen, 65279>> >>
RTL_RANGES == HEBREW_RANGES \o ARABIC_RANGES

\* RegExp.prototype.test for a pattern made of literal units only: the
\* pattern occurs somewhere in the string.
RegexTestLiteral(pat, str) ==
    \E i \in 0..(Len(str) - Len(pat)) :
        \A k \in 1..Len(pat) : str[i + k] = pat[k]

\* The ranges read as character classes [\u0590-\u05FF]: what the comments
\* of the detector describe.
RegexTestClass(pat, str) ==
    \E i \in 1..Len(str) : pat[1] <= str[i] /\ str[i] <= pat[3]

isRtlCharByClass(char) ==
    /\ Len(char) = 1
    /\ \E r \in 1..Len(RTL_RANGES) : RegexTestClass(RTL_RANGES[r], char)

\* isRtlChar(char): char is a string; false unless it has length 1, then
\* true when some range's regular expression matches it.
isRtlChar(char) ==
    /\ Len(char) = 1
    /\ \E r \in 1..Len(RTL_RANGES) : RegexTestLiteral(RTL_RANGES[r], char)

\* \s of a JavaScript regular expression.
IsWhitespace(c) ==
    \/ c \in {9, 10, 11, 12, 13, 32, 160, 5760, 8232, 8233, 8239, 8287, 12288, 65279}
    \/ (8192 <= c /\ c <= 8202)

\* \d
IsDigit(c) == 48 <= c /\ c <= 57

\* [a-zA-Z]
IsBasicLatin(c) == (65 <= c /\ c <= 90) \/ (97 <= c /\ c <= 122)

\* \p{P}, \p{S}, \p{Z}, \p{C} over the code units the model uses: ASCII in
\* full, and the few non-ASCII punctuation marks of the Hebrew and Arabic
\* blocks (maqaf, sof pasuq, Arabic comma, Arabic question mark).
IsPunctSymSepCtl(c) ==
    \/ (0 <= c /\ c <= 47 /\ ~IsDigit(c))
    \/ (58 <= c /\ c <= 64)
    \/ (91 <= c /\ c <= 96)
    \/ (123 <= c /\ c <= 127)
    \/ c \in {160, 1470, 1475, 1548, 1567}

\* \p{L} over the code units the model uses: basic Latin letters, Latin-1
\* letters, the Hebrew alphabet and the Arabic letters.
IsLetter(c) ==
    \/ IsBasicLatin(c)
    \/ (192 <= c /\ c <= 255 /\ c \notin {215, 247})
    \/ (1488 <= c /\ c <= 1514)
    \/ (1568 <= c /\ c <= 1610)

\* /^[\s\d\p{P}\p{S}\p{Z}\p{C}]*$/u tested on one code unit.
IsNeutralChar(c) == IsWhitespace(c) \/ IsDigit(c) \/ IsPunctSymSepCtl(c)

\* Number of leading units of s that satisfy P, as a greedy quantifier
\* consumes them.
RECURSIVE RunOfWs(_, _)
RunOfWs(s, i) ==
    IF i <= Len(s) /\ IsWhitespace(s[i]) THEN 1 + RunOfWs(s, i + 1) ELSE 0

RECURSIVE RunOfDigits(_, _)
RunOfDigits(s, i) ==
    IF i <= Len(s) /\ IsDigit(s[i]) THEN 1 + RunOfDigits(s, i + 1) ELSE 0

RECURSIVE RunOfUnit(_, _, _)
RunOfUnit(s, i, u) ==
    IF i <= Len(s) /\ s[i] = u THEN 1 + RunOfUnit(s, i + 1, u) ELSE 0

RECURSIVE RunOfNeutral(_, _)
RunOfNeutral(s, i) ==
    IF i <= Len(s) /\ IsNeutralChar(s[i]) THEN 1 + RunOfNeutral(s, i + 1) ELSE 0

Drop(s, n) == SubSeq(s, n + 1, Len(s))

At(s, i) == IF 1 <= i /\ i <= Len(s) THEN s[i] ELSE -1

\* Each prefix pattern returns the length of its match at the start of s,
\* or -1 when it does not match.  The classes that follow each greedy
\* quantifier are disjoint from it, so the greedy match is the match.

\* /^\s*-\s*\[\s*[xX]?\s*\]\s*/
MatchTaskList(s) ==
    LET a == RunOfWs(s, 1) + 1
    IN  IF At(s, a) # 45 THEN -1
        ELSE LET b == a + 1 + RunOfWs(s, a + 1)
             IN  IF At(s, b) # 91 THEN -1
                 ELSE LET c == b + 1 + RunOfWs(s, b + 1)
                          d == IF At(s, c) \in {120, 88} THEN c + 1 ELSE c
                          e == d + RunOfWs(s, d)
                      IN  IF At(s, e) # 93 THEN -1
                          ELSE e + RunOfWs(s, e + 1)

\* /^\s*[\-\*\+]\s+/
MatchBullet(s) ==
    LET a == RunOfWs(s, 1) + 1
    IN  IF At(s, a) \notin {45, 42, 43} THEN -1
        ELSE LET w == RunOfWs(s, a + 1)
             IN  IF w = 0 THEN -1 ELSE a + w

\* /^\s*\d+[\.\)]\s+/
MatchOrdered(s) ==
    LET a == RunOfWs(s, 1) + 1
        n == RunOfDigits(s, a)
    IN  IF n = 0 \/ At(s, a + n) \notin {46, 41} THEN -1
        ELSE LET w == RunOfWs(s, a + n + 1)
             IN  IF w = 0 THEN -1 ELSE a + n + w

\* /^\s*#{1,6}\s+/
MatchHeading(s) ==
    LET a == RunOfWs(s, 1) + 1
        n == RunOfUnit(s, a, 35)
    IN  IF n = 0 \/ n > 6 THEN -1
        ELSE LET w == RunOfWs(s, a + n)
             IN  IF w = 0 THEN -1 ELSE a + n - 1 + w

\* /^\s*>{1,}\s*/
MatchBlockquote(s) ==
    LET a == RunOfWs(s, 1) + 1
        n == RunOfUnit(s, a, 62)
    IN  IF n = 0 THEN -1
        ELSE a + n - 1 + RunOfWs(s, a + n)

\* String.prototype.replace(prefixRegex, ''): the match, if any, is removed.
StripPrefix(s, m) == IF m < 0 THEN s ELSE Drop(s, m)

\* markdownPrefixes[k - 1] matched at the start of s.
MatchPrefix(k, s) ==
    CASE k = 1 -> MatchTaskList(s)
      [] k = 2 -> MatchBullet(s)
      [] k = 3 -> MatchOrdered(s)
      [] k = 4 -> MatchHeading(s)
      [] k = 5 -> MatchBlockquote(s)

\* The loop over markdownPrefixes from pattern k on: every pattern is
\* applied in turn to what the previous ones left (t is bound to the value
\* of processedText after pattern k).
RECURSIVE StripFrom(_, _)
StripFrom(k, s) ==
    IF k > 5 THEN s
    ELSE CHOOSE r \in {StripFrom(k + 1, t) : t \in {StripPrefix(s, MatchPrefix(k, s))}} : TRUE

StripMarkdownPrefixes(s) == StripFrom(1, s)

\* Number of whitespace units of s that end at position i.
RECURSIVE TrailingWs(_, _)
TrailingWs(s, i) ==
    IF i >= 1 /\ IsWhitespace(s[i]) THEN 1 + TrailingWs(s, i - 1) ELSE 0

TrimEnd(s) == SubSeq(s, 1, Len(s) - TrailingWs(s, Len(s)))

\* String.prototype.trim
Trim(s) == TrimEnd(Drop(s, RunOfWs(s, 1)))

\* processedText.startsWith('```')
StartsWithFence(s) == Len(s) >= 3 /\ s[1] = 96 /\ s[2] = 96 /\ s[3] = 96

\* Math.min(processedText.length, 200)
CheckLength == 200

Min(a, b) == IF a < b THEN a ELSE b

\* Step 4: the first strong character among the first CheckLength units:
\* "rtl", "ltr", or "none" when the loop ends without returning.
RECURSIVE FirstStrong(_, _, _)
FirstStrong(s, i, n) ==
    IF i > n THEN "none"
    ELSE IF isRtlChar(<<s[i]>>) THEN "rtl"
    ELSE IF IsBasicLatin(s[i]) THEN "ltr"
    ELSE FirstStrong(s, i + 1, n)

RtlCharCount(s) == Cardinality({i \in 1..Len(s) : isRtlChar(<<s[i]>>)})

TotalScriptChars(s) == Cardinality({i \in 1..Len(s) : IsLetter(s[i])})

\* Step 5: (rtlCharCount / totalScriptChars) > 0.4, over the integers.
MajorityDirection(s) ==
    IF TotalScriptChars(s) = 0 THEN "ltr"
    ELSE IF 10 * RtlCharCount(s) > 4 * TotalScriptChars(s) THEN "rtl"
    ELSE "ltr"

\* Step 3: processedText.substring(firstSignificantCharIndex)
SkipNeutral(s) == Drop(s, RunOfNeutral(s, 1))

\* Steps 4 and 5 on the processed text.
DirectionOfProcessed(p) ==
    IF Len(p) = 0 THEN "ltr"
    ELSE LET f == FirstStrong(p, 1, Min(Len(p), CheckLength))
         IN  IF f # "none" THEN f ELSE MajorityDirection(p)

\* getBlockDirection(textBlock) for a string argument; "" is falsy.  u, t
\* and p are the values of processedText after steps 1, 2 and 3.
getBlockDirection(textBlock) ==
    IF Len(textBlock) = 0 THEN "ltr"
    ELSE IF StartsWithFence(textBlock) THEN "ltr"
    ELSE CHOOSE d \in
             {DirectionOfProcessed(p) :
                 p \in {SkipNeutral(t) :
                     t \in {Trim(u) :
                         u \in {StripMarkdownPrefixes(textBlock)}}}} : TRUE

\* A JavaScript value passed to getBlockDirection: a string with its code
\* units, or a value of another type.
JsString(units) == [type |-> "string", value |-> units]
JsUndefined == [type |-> "undefined", value |-> <<>>]
JsNull == [type |-> "null", value |-> <<>>]
JsNumber == [type |-> "number", value |-> <<>>]
JsObject == [type |-> "object", value |-> <<>>]

\* if (!textBlock || typeof textBlock !== 'string') return 'ltr';
getBlockDirectionOf(v) ==
    IF v.type # "string" THEN "ltr" ELSE getBlockDirection(v.value)

(***************************************************************************)
(* ------------------------------  main.ts  ------------------------------ *)
(***************************************************************************)

\* type DirectionSetting
DirectionSetting == {"ltr", "rtl", "auto"}

\* activeNoteOverride: DirectionSetting | null
OverrideValues == DirectionSetting \cup {"null"}

\* The four classes applyDirectionToElement removes.
ModeClasses == {"ltr-mode", "rtl-mode", "auto-mode", "auto-detect-direction"}

DEFAULT_SETTINGS ==
    [globalDefaultDirection |-> "auto",
     editor |-> "auto",
     leftSidebar |-> "ltr",
     rightSidebar |-> "ltr",
     fileExplorer |-> "ltr",
     searchResults |-> "auto",
     tagPane |-> "auto",
     canvasCard |-> "auto",
     enableAdvancedTextDetection |-> TRUE]

\* The dropdowns and the toggle of the settings tab the model changes; the
\* other containers keep their DEFAULT_SETTINGS value.
SettingChoices ==
    [globalDefaultDirection |-> DirectionSetting,
     editor |-> DirectionSetting,
     canvasCard |-> DirectionSetting,
     enableAdvancedTextDetection |-> BOOLEAN]

ChangeableKeys == DOMAIN SettingChoices

\* Object.assign({}, DEFAULT_SETTINGS, await this.loadData()): no stored
\* data, or stored data that differs from the defaults.
LoadableSettings ==
    {DEFAULT_SETTINGS,
     [DEFAULT_SETTINGS EXCEPT !.editor = "rtl"],
     [DEFAULT_SETTINGS EXCEPT !.enableAdvancedTextDetection = FALSE,
                              !.globalDefaultDirection = "rtl"]}

(***************************************************************************)
(* The host: leaves, DOM elements, files.                                  *)
(***************************************************************************)
EditorEls == {<<"editor", i>> : i \in 1..MaxEditors}
CardEls == {<<"card", i>> : i \in 1..MaxCards}
CanvasNodes == <<"canvas-nodes", 0>>
PanelEls == {<<"leftSidebar", 0>>, <<"rightSidebar", 0>>, <<"fileExplorer", 0>>,
             <<"searchResults", 0>>, <<"tagPane", 0>>}
Els == EditorEls \cup CardEls \cup {CanvasNodes} \cup PanelEls
NoLeaf == <<"none", 0>>

MdFiles == {"A", "B"}
\* "X" is the canvas file and "I" an image: files whose extension is not md;
\* "none" is no active file.
ActiveFiles == MdFiles \cup {"X", "I", "none"}

\* fm.direction as stored in a note: absent, a valid value, or another value.
FmValues == {"absent", "ltr", "rtl", "auto", "bad"}

\* element.textContent of the model's regions: "# <alef>" and "Hi".
Texts == {<<35, 32, 1488>>, <<72, 105>>}
PanelText == <<72, 105>>
CardText == <<35, 32, 1488>>
TextOfFile(f) == IF f = "A" THEN <<35, 32, 1488>> ELSE <<72, 105>>

NewElement(text, file) ==
    [st |-> "live", file |-> file, dir |-> "none", eff |-> "none", cls |-> {}, text |-> text]

\* An element removed from the document; its attributes are read no more.
GoneElement ==
    [st |-> "gone", file |-> "none", dir |-> "none", eff |-> "none", cls |-> {}, text |-> <<>>]

UnusedElement ==
    [st |-> "unused", file |-> "none", dir |-> "none", eff |-> "none", cls |-> {}, text |-> <<>>]

VARIABLES
    pc,                       \* constructed, loading, loaded, unloaded
    settings,                 \* this.settings
    activeNoteOverride,       \* this.activeNoteOverride
    observedEditorElements,   \* this.observedEditorElements
    observedCanvasContainers, \* this.observedCanvasContainers
    timeoutId,                \* debounce: <<>> (null) or <<batch>> of a pending call
    writes,                   \* setNoteDirection calls awaiting processFrontMatter
    dom,                      \* the elements and their attributes
    activeLeaf,               \* the active MarkdownView's .cm-content, or NoLeaf
    activeFile,               \* workspace.getActiveFile()
    fm,                       \* the stored frontmatter direction of each note
    content,                  \* the text of each note, shown by every editor of it
    editorTargets,            \* nodes the editor MutationObserver observes
    canvasTargets,            \* nodes the canvas MutationObserver observes
    windowLog,                \* the notifications and handler runs, as timed
    textBlock,                \* the argument of a direct call of getBlockDirection
    detectedDir,              \* what that call returned; "pending" until it returns
    notice                    \* the text of the last Notice shown, "" for none

vars == <<pc, settings, activeNoteOverride, observedEditorElements,
          observedCanvasContainers, timeoutId, writes, dom, activeLeaf,
          activeFile, fm, content, editorTargets, canvasTargets, windowLog, textBlock, detectedDir, notice>>

(***************************************************************************)
(* debounce(func, delay) and the record of what it was asked and what it   *)
(* ran: the time since the last notification, how the notifications were   *)
(* spaced, and for each editor the notifications that named it and the     *)
(* handler runs whose batch held it.                                       *)
(***************************************************************************)
\* this.debounce(this.handleEditorMutationInner.bind(this), 500)
Delay == 500
HalfDelay == Delay \div 2

\* A pending call that keeps the batches of the calls it replaces.
debounceMergingBatches(pending, batch) ==
    IF pending = <<>> THEN <<batch>> ELSE <<pending[1] \cup batch>>

\* A debounce that sets the new timer and leaves the pending one running.
debounceWithoutCancel(pending, batch) == Append(pending, batch)

\* if (timeoutId !== null) clearTimeout(timeoutId);
\* timeoutId = setTimeout(() => func(...args), delay): the pending call holds
\* the arguments of the last call only.
debounce(pending, batch) == <<batch>>

\* observer.observe(element, { childList: true, subtree: true,
\* characterData: true }): the record types the observers ask for.
ObserveOptionsWithAttributes == {"childList", "subtree", "characterData", "attributes"}

ObserveOptions == {"childList", "subtree", "characterData"}

\* element.dataset.*, classList.add/remove, setAttribute, removeAttribute:
\* every write of a direction marking queues a record of this type.
MarkingRecordType == "attributes"

\* The pending call after the plugin wrote the marking of the elements in
\* written: the editor observer delivers the records of the nodes it
\* observes when its options ask for their type, and its callback calls the
\* debounced handler with them.  (The canvas observer is given the same
\* options, and its callback acts on childList records only.)
TimerAfterWrites(pending, written, targets) ==
    IF MarkingRecordType \in ObserveOptions /\ written \cap targets # {}
    THEN debounce(pending, written \cap targets)
    ELSE pending

NoNotifications ==
    [elapsed |-> 0, calls |-> 0, runs |-> 0, spacing |-> "none", last |-> {},
     notified |-> [x \in EditorEls |-> 0], handled |-> [x \in EditorEls |-> 0]]

\* How a notification is spaced from the one before it.
GapClass(elapsed) ==
    IF elapsed < Delay THEN "burst" ELSE IF elapsed > Delay THEN "spaced" ELSE "mixed"

SpacingAfter(log) ==
    IF log.calls = 0 THEN "one"
    ELSE IF log.spacing \in {"one", GapClass(log.elapsed)} THEN GapClass(log.elapsed)
    ELSE "mixed"

LogNotification(log, batch) ==
    [log EXCEPT !.elapsed = 0,
                !.calls = @ + 1,
                !.spacing = SpacingAfter(log),
                !.last = batch,
                !.notified = [x \in EditorEls |-> IF x \in batch THEN @[x] + 1 ELSE @[x]]]

LogRun(log, batch) ==
    [log EXCEPT !.runs = @ + 1,
                !.handled = [x \in EditorEls |-> IF x \in batch THEN @[x] + 1 ELSE @[x]]]

\* document.body.contains(element)
InDom(el) == el.st = "live"

\* file && file.extension === 'md'
IsMarkdown(f) == f \in MdFiles

(***************************************************************************)
(* applyDirectionToElement(element, direction): the element after the call.*)
(***************************************************************************)
EffectiveWhenDetectionOffRaw(S) == S.globalDefaultDirection

\* this.settings.globalDefaultDirection === 'auto' ? 'ltr' : globalDefaultDirection
EffectiveWhenDetectionOff(S) ==
    IF S.globalDefaultDirection = "auto" THEN "ltr" ELSE S.globalDefaultDirection

\* getBlockDirection(element.textContent || ""), tabulated over the texts
\* the model's elements can hold.
DetectedDirections == [t \in Texts \cup {<<>>} |-> getBlockDirection(t)]

DetectedDirection(text) == DetectedDirections[text]

\* A resolution that classifies the text whether detection is on or off.
EffectiveDirectionAlwaysDetecting(el, direction, S) ==
    IF direction = "auto" THEN DetectedDirection(el.text) ELSE direction

EffectiveDirection(el, direction, S) ==
    IF direction = "auto"
    THEN IF S.enableAdvancedTextDetection
         THEN DetectedDirection(el.text)
         ELSE EffectiveWhenDetectionOff(S)
    ELSE direction

ModeClass(d) == IF d = "ltr" THEN "ltr-mode" ELSE IF d = "rtl" THEN "rtl-mode" ELSE "auto-mode"

\* An application that toggles the mode class where the code adds it.
applyDirectionTogglingClass(el, direction, S) ==
    IF ~InDom(el) THEN el
    ELSE LET e == EffectiveDirection(el, direction, S)
         IN  [el EXCEPT !.dir = direction,
                        !.eff = e,
                        !.cls = IF ModeClass(e) \in el.cls
                                THEN el.cls \ {ModeClass(e)}
                                ELSE el.cls \cup {ModeClass(e)}]

applyDirectionToElement(el, direction, S) ==
    IF ~InDom(el) THEN el
    ELSE LET e == EffectiveDirection(el, direction, S)
         IN  [el EXCEPT !.dir = direction,
                        !.eff = e,
                        !.cls = ((el.cls \ ModeClasses)
                                 \cup (IF direction = "auto" THEN {"auto-detect-direction"} ELSE {}))
                                 \cup {ModeClass(e)}]

(***************************************************************************)
(* handleEditorMutationInner for one .cm-content element of the batch.     *)
(***************************************************************************)
\* userDirectionForThisEditor
UserDirectionForThisEditor(S, ov) == IF ov # "null" THEN ov ELSE S.editor

\* A filter that lets every editor of the batch through.
MutationConcernsAnyEditor(x, el, observed, af) == InDom(el)

\* The element passes the filters: it is in observedEditorElements, a
\* markdown leaf owns it, and that leaf shows the active file.
MutationConcerns(x, el, observed, af) ==
    /\ x \in observed
    /\ InDom(el)
    /\ af # "none"
    /\ el.file = af

\* A handler that classifies the text whatever the resolved setting and the
\* detection toggle are.
handleEditorMutationInnerAlwaysDetecting(x, el, S, ov, observed, af) ==
    IF /\ MutationConcerns(x, el, observed, af)
       /\ el.eff # DetectedDirection(el.text)
    THEN LET d == DetectedDirection(el.text)
         IN  [el EXCEPT !.eff = d,
                        !.cls = (el.cls \ {"ltr-mode", "rtl-mode"}) \cup {ModeClass(d)}]
    ELSE el

\* A handler that adds the class of the detected direction and leaves the
\* class of the old one in place.
handleEditorMutationInnerAddingClass(x, el, S, ov, observed, af) ==
    IF /\ MutationConcerns(x, el, observed, af)
       /\ UserDirectionForThisEditor(S, ov) = "auto"
       /\ S.enableAdvancedTextDetection
       /\ el.eff # DetectedDirection(el.text)
    THEN LET d == DetectedDirection(el.text)
         IN  [el EXCEPT !.eff = d, !.cls = el.cls \cup {ModeClass(d)}]
    ELSE el

\* A handler that applies the detected direction anew whether or not the
\* element carries it already, clearing the classes as
\* applyDirectionToElement does.
handleEditorMutationInnerRewriting(x, el, S, ov, observed, af) ==
    IF /\ MutationConcerns(x, el, observed, af)
       /\ UserDirectionForThisEditor(S, ov) = "auto"
       /\ S.enableAdvancedTextDetection
    THEN LET d == DetectedDirection(el.text)
         IN  [el EXCEPT !.eff = d, !.cls = (el.cls \ ModeClasses) \cup {ModeClass(d)}]
    ELSE el

handleEditorMutationInner(x, el, S, ov, observed, af) ==
    IF /\ MutationConcerns(x, el, observed, af)
       /\ UserDirectionForThisEditor(S, ov) = "auto"
       /\ S.enableAdvancedTextDetection
       /\ el.eff # DetectedDirection(el.text)
    THEN LET d == DetectedDirection(el.text)
         IN  [el EXCEPT !.eff = d,
                        !.cls = (el.cls \ {"ltr-mode", "rtl-mode"}) \cup {ModeClass(d)}]
    ELSE el


\* The editors of the batch on which the handler writes (lines 208-210).
WrittenByHandler(batch, d, S, ov, observed, af) ==
    {x \in batch : handleEditorMutationInner(x, d[x], S, ov, observed, af) # d[x]}

(***************************************************************************)
(* refreshActiveEditorDirection: the active view's .cm-content after it.   *)
(***************************************************************************)
\* this.activeNoteOverride || this.settings.editor.direction
DirectionToApply(S, ov) == IF ov # "null" THEN ov ELSE S.editor

refreshActiveEditorDirection(d, leaf, S, ov, observed, af, hasObserver) ==
    IF leaf = NoLeaf THEN d
    ELSE LET dir == DirectionToApply(S, ov)
             a == applyDirectionToElement(d[leaf], dir, S)
         IN  [d EXCEPT ![leaf] =
                IF /\ dir = "auto"
                   /\ S.enableAdvancedTextDetection
                   /\ hasObserver
                   /\ leaf \in observed
                THEN handleEditorMutationInner(leaf, a, S, ov, observed, af)
                ELSE a]

\* The element whose marking refreshActiveEditorDirection writes.
WrittenByRefresh(d, leaf) == IF leaf # NoLeaf /\ InDom(d[leaf]) THEN {leaf} ELSE {}

(***************************************************************************)
(* applyAllUiSettings, with manageObserver and cleanupOldObservers.        *)
(***************************************************************************)
LiveEditors(d) == {x \in EditorEls : InDom(d[x])}

\* The per-kind default alone, as if the override were never consulted.
EditorDirIgnoringOverride(el, S, ov, af) == S.editor

\* let dir = settings.editor.direction; the override replaces it for a leaf
\* that shows the active file.
EditorDirInPass(el, S, ov, af) ==
    IF af # "none" /\ el.file = af /\ ov # "null" THEN ov ELSE S.editor

\* dir === 'auto' && this.settings.enableAdvancedTextDetection
ShouldObserveEditor(dir, S) == dir = "auto" /\ S.enableAdvancedTextDetection

\* The setting of each non-editor container.
ContainerSetting(x, S) ==
    CASE x[1] = "leftSidebar" -> S.leftSidebar
      [] x[1] = "rightSidebar" -> S.rightSidebar
      [] x[1] = "fileExplorer" -> S.fileExplorer
      [] x[1] = "searchResults" -> S.searchResults
      [] x[1] = "tagPane" -> S.tagPane
      [] x[1] = "card" -> S.canvasCard
      [] OTHER -> "-"

\* manageObserver: the elements it observes and adds to observedSet.
NewlyObserved(candidates, observedSet, hasObserver) ==
    IF hasObserver THEN candidates \ observedSet ELSE {}

\* A cleanup that drops nothing and disconnects nothing.
cleanupKeepingAll(d, hasObserver, observedSet, targets, current) ==
    [observed |-> observedSet, targets |-> targets]

\* cleanupOldObservers(observer, observedSet, currentElementsToObserve):
\* the observed set and the observer's targets after it.
cleanupOldObservers(d, hasObserver, observedSet, targets, current) ==
    IF ~hasObserver THEN [observed |-> observedSet, targets |-> targets]
    ELSE LET newObservedSet == {el \in observedSet : InDom(d[el]) /\ el \in current}
         IN  [observed |-> newObservedSet,
              targets |-> IF newObservedSet = {} /\ observedSet # {} THEN {} ELSE targets]

QualifyingEditors(d, S, ov, af) ==
    {x \in LiveEditors(d) : ShouldObserveEditor(EditorDirInPass(d[x], S, ov, af), S)}

LiveCanvasContainers(d) == IF InDom(d[CanvasNodes]) THEN {CanvasNodes} ELSE {}

\* The direction each element is given by the pass.
DirInPass(x, d, S, ov, af) ==
    IF x \in EditorEls THEN EditorDirInPass(d[x], S, ov, af) ELSE ContainerSetting(x, S)

\* A pass that leaves the canvas cards out.
TouchedByPassSkippingCards(x, d) == x # CanvasNodes /\ x \notin CardEls /\ InDom(d[x])

\* The elements the pass applies a direction to: every live editor, card
\* and side container (.canvas-nodes itself is only observed).
TouchedByPass(x, d) == x # CanvasNodes /\ InDom(d[x])

\* The elements whose marking the pass writes.  (The call of
\* handleEditorMutationInner for a newly observed editor writes nothing: the
\* editor resolved to auto with detection on and was given the detected
\* direction just before.)
WrittenByPass(d) == {x \in Els : TouchedByPass(x, d)}

\* applyAllUiSettings: the DOM after the pass.  An editor that
\* manageObserver starts to observe is reclassified at once by
\* handleEditorMutationInner.
applyAllUiSettings(d, S, ov, af, hasObserver, obsEd) ==
    LET newEd == NewlyObserved(QualifyingEditors(d, S, ov, af), obsEd, hasObserver)
    IN  [x \in Els |->
            IF ~TouchedByPass(x, d) THEN d[x]
            ELSE IF x \in newEd
                 THEN handleEditorMutationInner(
                          x, applyDirectionToElement(d[x], DirInPass(x, d, S, ov, af), S),
                          S, ov, obsEd \cup newEd, af)
                 ELSE applyDirectionToElement(d[x], DirInPass(x, d, S, ov, af), S)]

\* applyAllUiSettings: observedEditorElements and the editor observer's
\* targets after manageObserver and cleanupOldObservers.
EditorObserversAfterPass(d, S, ov, af, hasObserver, obsEd, tgEd) ==
    LET newEd == NewlyObserved(QualifyingEditors(d, S, ov, af), obsEd, hasObserver)
    IN  cleanupOldObservers(d, hasObserver, obsEd \cup newEd, tgEd \cup newEd, LiveEditors(d))

\* The same for observedCanvasContainers: a live .canvas-nodes is always to
\* be observed.
CanvasObserversAfterPass(d, hasObserver, obsCv, tgCv) ==
    LET newCv == NewlyObserved(LiveCanvasContainers(d), obsCv, hasObserver)
    IN  cleanupOldObservers(d, hasObserver, obsCv \cup newCv, tgCv \cup newCv,
                            LiveCanvasContainers(d))

(***************************************************************************)
(* applyAllUiSettings when one region fails.  kind "vanished": the lookup  *)
(* of the region's element yields null or a node outside the document, so  *)
(* an editor is not added to currentEditorCMContentElements and            *)
(* applyDirectionToElement returns at once.  kind "throws": the body of    *)
(* applyDirectionToElement throws after it removed the old marking and its *)
(* catch logs the error.                                                   *)
(***************************************************************************)
PassFaultKinds == {"vanished", "throws"}

\* The regions that fail in the model: the first editor, the first card,
\* a sidebar and a container found through its leaf.
FailingRegions ==
    {<<"editor", 1>>, <<"card", 1>>, <<"leftSidebar", 0>>, <<"searchResults", 0>>}

PassFaults == {[region |-> f, kind |-> k] : f \in FailingRegions, k \in PassFaultKinds}

\* A pass that stops at the first failure.
SeenUnlessAborted(x, d, fault) == FALSE

\* The elements the pass reaches although one region failed.
SeenByPass(x, d, fault) ==
    TouchedByPass(x, d) /\ ~(fault.kind = "vanished" /\ fault.region = x)

\* element.dataset.direction = direction; classList.remove(...);
\* removeAttribute('data-effective-direction'); then an exception, caught.
applyDirectionToElementThrowing(el, direction) ==
    IF ~InDom(el) THEN el
    ELSE [el EXCEPT !.dir = direction, !.eff = "none", !.cls = el.cls \ ModeClasses]

ApplyInFaultyPass(x, d, S, ov, af, fault) ==
    IF fault.kind = "throws" /\ fault.region = x
    THEN applyDirectionToElementThrowing(d[x], DirInPass(x, d, S, ov, af))
    ELSE applyDirectionToElement(d[x], DirInPass(x, d, S, ov, af), S)

QualifyingEditorsSeen(d, S, ov, af, fault) ==
    {x \in QualifyingEditors(d, S, ov, af) : SeenByPass(x, d, fault)}

applyAllUiSettingsWithFault(d, S, ov, af, hasObserver, obsEd, fault) ==
    LET newEd == NewlyObserved(QualifyingEditorsSeen(d, S, ov, af, fault), obsEd, hasObserver)
    IN  [x \in Els |->
            IF ~SeenByPass(x, d, fault) THEN d[x]
            ELSE IF x \in newEd
                 THEN handleEditorMutationInner(
                          x, ApplyInFaultyPass(x, d, S, ov, af, fault),
                          S, ov, obsEd \cup newEd, af)
                 ELSE ApplyInFaultyPass(x, d, S, ov, af, fault)]

EditorObserversAfterFaultyPass(d, S, ov, af, hasObserver, obsEd, tgEd, fault) ==
    LET newEd == NewlyObserved(QualifyingEditorsSeen(d, S, ov, af, fault), obsEd, hasObserver)
    IN  cleanupOldObservers(d, hasObserver, obsEd \cup newEd, tgEd \cup newEd,
                            {x \in LiveEditors(d) : SeenByPass(x, d, fault)})

(***************************************************************************)
(* handleFileOpen(file): the override it leaves.                           *)
(***************************************************************************)
\* (directionFromFm && ['ltr','rtl','auto'].includes(directionFromFm)) ? ... : null
OverrideFromFrontmatterUnchecked(v) == IF v = "absent" THEN "null" ELSE v

OverrideFromFrontmatter(v) == IF v \in DirectionSetting THEN v ELSE "null"

\* readOk = FALSE: metadataCache.getFileCache throws and the catch runs.
OverrideOnFileOpen(file, store, readOk) ==
    IF IsMarkdown(file) /\ readOk THEN OverrideFromFrontmatter(store[file]) ELSE "null"

(***************************************************************************)
(* The status bar click handler: the next direction of the cycle.          *)
(***************************************************************************)
NextDirectionSkippingAuto(currentOverride) ==
    CASE currentOverride = "ltr" -> "rtl"
      [] currentOverride = "rtl" -> "null"
      [] OTHER -> "ltr"

NextDirection(currentOverride) ==
    CASE currentOverride = "ltr" -> "rtl"
      [] currentOverride = "rtl" -> "auto"
      [] currentOverride = "auto" -> "null"
      [] OTHER -> "ltr"

\* processFrontMatter callback: delete fm.direction, or set it.
FrontmatterAfterWrite(direction) == IF direction = "null" THEN "absent" ELSE direction

(***************************************************************************)
(* Initial state: the plugin object is constructed and not yet loaded; the *)
(* workspace has its side panels and no markdown or canvas leaf.           *)
(***************************************************************************)
\* Note A stores a value that is none of the three, note B a valid direction.
InitialFrontmatter == [f \in MdFiles |-> IF f = "A" THEN "bad" ELSE "rtl"]

\* The plugin object after construction, in a workspace without markdown
\* and canvas leaves.
Constructed ==
    /\ pc = "constructed"
    /\ settings = DEFAULT_SETTINGS
    /\ activeNoteOverride = "null"
    /\ observedEditorElements = {}
    /\ observedCanvasContainers = {}
    /\ timeoutId = <<>>
    /\ writes = <<>>
    /\ dom = [x \in Els |-> IF x \in PanelEls THEN NewElement(PanelText, "none")
                            ELSE UnusedElement]
    /\ activeLeaf = NoLeaf
    /\ activeFile = "none"
    /\ fm = InitialFrontmatter
    /\ content = [f \in MdFiles |-> TextOfFile(f)]
    /\ editorTargets = {}
    /\ canvasTargets = {}
    /\ windowLog = NoNotifications
    /\ notice = ""

\* No direct call of the classifier is under way.
Init ==
    /\ Constructed
    /\ textBlock = JsUndefined
    /\ detectedDir = "idle"

\* The event handlers, the status bar item and the commands exist.
Loaded == pc = "loaded"

\* this.editorMutationObserver / this.canvasObserver are not null.
HasObserver == pc = "loaded"

\* The workspace keeps changing until the plugin is unloaded; afterwards the
\* model follows only the callbacks that are still pending.
HostRuns == pc \in {"constructed", "loaded"}

\* A step that empties the editor registry.
EditorRegistryForgotten ==
    /\ observedEditorElements' = {}
    /\ UNCHANGED <<pc, settings, activeNoteOverride, observedCanvasContainers, writes>>

PluginUnchanged ==
    UNCHANGED <<pc, settings, activeNoteOverride, observedEditorElements,
                observedCanvasContainers, writes>>

\* clearActiveNoteOverrideAndRefreshEditor, called when the active leaf is
\* not a markdown view with a file: the DOM after it.
clearActiveNoteOverrideAndRefreshEditor(d, leaf, S, ov, observed, af, hasObserver) ==
    IF ov # "null"
    THEN refreshActiveEditorDirection(d, leaf, S, "null", observed, af, hasObserver)
    ELSE d

\* A full pass as a step: the DOM, both registry sets and both observers.
FullPass(S, hasObserver) ==
    /\ dom' = applyAllUiSettings(dom, S, activeNoteOverride, activeFile, hasObserver,
                                 observedEditorElements)
    /\ LET e == EditorObserversAfterPass(dom, S, activeNoteOverride, activeFile, hasObserver,
                                         observedEditorElements, editorTargets)
       IN  observedEditorElements' = e.observed /\ editorTargets' = e.targets
    /\ LET c == CanvasObserversAfterPass(dom, hasObserver, observedCanvasContainers,
                                         canvasTargets)
       IN  observedCanvasContainers' = c.observed /\ canvasTargets' = c.targets

(***************************************************************************)
(* Host steps.                                                             *)
(***************************************************************************)
\* A markdown leaf opens in the background.
OpenEditorOf(files) ==
    \E x \in EditorEls, f \in files :
        /\ HostRuns
        /\ dom[x].st = "unused"
        /\ \A y \in EditorEls : y[2] < x[2] => dom[y].st # "unused"
        /\ dom' = [dom EXCEPT ![x] = NewElement(content[f], f)]
        /\ PluginUnchanged
        /\ UNCHANGED <<timeoutId, activeLeaf, activeFile, fm, content, editorTargets, canvasTargets, windowLog, textBlock, detectedDir, notice>>

OpenEditor == OpenEditorOf(MdFiles)

\* The same, for a workspace in which only note A is opened.
OpenNoteA == OpenEditorOf({"A"})

\* A markdown leaf closes.  When it was the active leaf no markdown view is
\* active any more and 'active-leaf-change' runs
\* clearActiveNoteOverrideAndRefreshEditor.
CloseEditor ==
    \E x \in EditorEls :
        /\ HostRuns
        /\ dom[x].st = "live"
        /\ IF x = activeLeaf
           THEN /\ activeLeaf' = NoLeaf
                /\ activeFile' = "none"
                /\ activeNoteOverride' = IF Loaded THEN "null" ELSE activeNoteOverride
                /\ dom' = IF Loaded
                          THEN clearActiveNoteOverrideAndRefreshEditor(
                                   [dom EXCEPT ![x] = GoneElement], NoLeaf, settings,
                                   activeNoteOverride, observedEditorElements, "none", HasObserver)
                          ELSE [dom EXCEPT ![x] = GoneElement]
           ELSE /\ dom' = [dom EXCEPT ![x] = GoneElement]
                /\ UNCHANGED <<activeLeaf, activeFile, activeNoteOverride>>
        /\ UNCHANGED <<pc, settings, observedEditorElements, observedCanvasContainers,
                       writes, timeoutId, fm, content, editorTargets, canvasTargets, windowLog, textBlock, detectedDir, notice>>

OpenCanvas ==
    /\ HostRuns
    /\ dom[CanvasNodes].st = "unused"
    /\ dom' = [dom EXCEPT ![CanvasNodes] = NewElement(<<>>, "X")]
    /\ PluginUnchanged
    /\ UNCHANGED <<timeoutId, activeLeaf, activeFile, fm, content, editorTargets, canvasTargets, windowLog, textBlock, detectedDir, notice>>

\* The canvas leaf closes: its container and its cards leave the document.
CloseCanvas ==
    /\ HostRuns
    /\ dom[CanvasNodes].st = "live"
    /\ activeFile # "X"
    /\ dom' = [x \in Els |-> IF x = CanvasNodes \/ (x \in CardEls /\ dom[x].st = "live")
                             THEN GoneElement ELSE dom[x]]
    /\ PluginUnchanged
    /\ UNCHANGED <<timeoutId, activeLeaf, activeFile, fm, content, editorTargets, canvasTargets, windowLog, textBlock, detectedDir, notice>>

\* The user types in the active editor.  Every editor that shows the note
\* changes; the editor observer calls the debounced handler with the batch
\* of the mutations it observes:
\* clearTimeout(timeoutId); timeoutId = setTimeout(() => func(batch), 500).
EditorsOfFile(d, f) == {x \in EditorEls : InDom(d[x]) /\ d[x].file = f}

\* The editors whose mutation the observer reports when the active note
\* changes.
NotifiedEditors == EditorsOfFile(dom, activeFile) \cap editorTargets

EditTextTo(t) ==
    /\ HostRuns
    /\ activeLeaf # NoLeaf
    /\ t # content[activeFile]
    /\ content' = [content EXCEPT ![activeFile] = t]
    /\ dom' = [x \in Els |-> IF x \in EditorsOfFile(dom, activeFile)
                             THEN [dom[x] EXCEPT !.text = t] ELSE dom[x]]
    /\ timeoutId' = IF NotifiedEditors # {}
                    THEN debounce(timeoutId, NotifiedEditors)
                    ELSE timeoutId
    /\ PluginUnchanged
    /\ UNCHANGED <<activeLeaf, activeFile, fm, editorTargets, canvasTargets>>

\* The edit with time left out: the timer may fire at any later step.
EditText == \E t \in Texts : EditTextTo(t) /\ UNCHANGED <<windowLog, textBlock, detectedDir, notice>>

\* The edit at the current time.
TimedEditText ==
    \E t \in Texts :
        /\ Loaded
        /\ windowLog.calls < MaxNotifications
        /\ EditTextTo(t)
        /\ windowLog' = IF NotifiedEditors # {}
                        THEN LogNotification(windowLog, NotifiedEditors)
                        ELSE windowLog
        /\ UNCHANGED <<textBlock, detectedDir, notice>>

(***************************************************************************)
(* onload, split after its first pass.                                     *)
(***************************************************************************)
\* await this.loadSettings(); this.applyAllUiSettings(): both observers are
\* still null.
LoadPass ==
    \E S \in LoadableSettings :
        /\ pc = "constructed"
        /\ pc' = "loading"
        /\ settings' = S
        /\ FullPass(S, FALSE)
        /\ UNCHANGED <<activeNoteOverride, timeoutId, writes, activeLeaf, activeFile, fm,
                       content, windowLog, textBlock, detectedDir, notice>>

\* The rest of onload: the observers and handlers are created, then
\* handleFileOpen(activeFile) when there is an active file.
LoadFinishWith(readOk) ==
        /\ pc = "loading"
        /\ pc' = "loaded"
        /\ IF activeFile # "none"
           THEN LET ov == OverrideOnFileOpen(activeFile, fm, readOk)
                IN  /\ activeNoteOverride' = ov
                    /\ dom' = refreshActiveEditorDirection(dom, activeLeaf, settings, ov,
                                                           observedEditorElements, activeFile, TRUE)
           ELSE /\ readOk
                /\ UNCHANGED <<activeNoteOverride, dom>>
        /\ UNCHANGED <<settings, observedEditorElements, observedCanvasContainers, timeoutId,
                       writes, activeLeaf, activeFile, fm, content, editorTargets, canvasTargets, windowLog, textBlock, detectedDir, notice>>

LoadFinish == \E readOk \in BOOLEAN : LoadFinishWith(readOk)

\* An onunload that sets pc and leaves the observers and the registry sets
\* as they are.
UnloadKeepingRegistry ==
    /\ pc = "loaded"
    /\ pc' = "unloaded"
    /\ UNCHANGED <<settings, activeNoteOverride, observedEditorElements,
                   observedCanvasContainers, timeoutId, writes, dom, activeLeaf, activeFile,
                   fm, content, editorTargets, canvasTargets, windowLog, textBlock,
                   detectedDir, notice>>

\* onunload
Unload ==
    /\ pc = "loaded"
    /\ pc' = "unloaded"
    /\ observedEditorElements' = {}
    /\ observedCanvasContainers' = {}
    /\ editorTargets' = {}
    /\ canvasTargets' = {}
    /\ UNCHANGED <<settings, activeNoteOverride, timeoutId, writes, dom, activeLeaf,
                   activeFile, fm, content, windowLog, textBlock, detectedDir, notice>>

(***************************************************************************)
(* Workspace events: 'active-leaf-change' and 'file-open'.                 *)
(***************************************************************************)
\* A markdown leaf becomes active (or a file is opened in the active leaf):
\* handleFileOpen(leaf.view.file).
ActivateEditorWith(x, readOk) ==
        /\ HostRuns
        /\ dom[x].st = "live"
        /\ activeLeaf' = x
        /\ activeFile' = dom[x].file
        /\ IF Loaded
           THEN LET ov == OverrideOnFileOpen(dom[x].file, fm, readOk)
                IN  /\ activeNoteOverride' = ov
                    /\ dom' = refreshActiveEditorDirection(dom, x, settings, ov,
                                             observedEditorElements, dom[x].file, HasObserver)
                    /\ timeoutId' = TimerAfterWrites(timeoutId, WrittenByRefresh(dom, x),
                                                     editorTargets)
           ELSE /\ readOk
                /\ x # activeLeaf
                /\ UNCHANGED <<activeNoteOverride, dom, timeoutId>>
        /\ UNCHANGED <<pc, settings, observedEditorElements, observedCanvasContainers,
                       writes, fm, content, editorTargets, canvasTargets, windowLog, textBlock, detectedDir, notice>>

ActivateEditor == \E x \in EditorEls, readOk \in BOOLEAN : ActivateEditorWith(x, readOk)

\* A leaf that is not a markdown view becomes active.  A side panel leaves
\* getActiveFile() at the most recent file; the canvas or an image view
\* makes its own file the active file.
\* clearActiveNoteOverrideAndRefreshEditor runs; the handleFileOpen that
\* 'file-open' adds for the canvas or image file leaves the same state.
OtherViews == {"panel", "canvas", "image"}

FileOfView(k, af) == IF k = "canvas" THEN "X" ELSE IF k = "image" THEN "I" ELSE af

ActivateOther ==
    \E k \in OtherViews :
        /\ HostRuns
        /\ activeLeaf # NoLeaf \/ FileOfView(k, activeFile) # activeFile
        /\ k = "canvas" => dom[CanvasNodes].st = "live"
        /\ activeLeaf' = NoLeaf
        /\ activeFile' = FileOfView(k, activeFile)
        /\ IF Loaded
           THEN /\ activeNoteOverride' = "null"
                /\ dom' = clearActiveNoteOverrideAndRefreshEditor(dom, NoLeaf, settings,
                              activeNoteOverride, observedEditorElements, activeFile', HasObserver)
           ELSE /\ UNCHANGED <<activeNoteOverride, dom>>
        /\ UNCHANGED <<pc, settings, observedEditorElements, observedCanvasContainers,
                       timeoutId, writes, fm, content, editorTargets, canvasTargets, windowLog, textBlock, detectedDir, notice>>

(***************************************************************************)
(* handleCanvasMutation: a card is added under .canvas-nodes.              *)
(***************************************************************************)
handleCanvasMutation(el, S) == applyDirectionToElement(el, S.canvasCard, S)

InsertCard ==
    \E c \in CardEls :
        /\ HostRuns
        /\ dom[CanvasNodes].st = "live"
        /\ dom[c].st = "unused"
        /\ \A y \in CardEls : y[2] < c[2] => dom[y].st # "unused"
        /\ dom' = [dom EXCEPT ![c] =
                      IF CanvasNodes \in canvasTargets
                      THEN handleCanvasMutation(NewElement(CardText, "X"), settings)
                      ELSE NewElement(CardText, "X")]
        /\ PluginUnchanged
        /\ UNCHANGED <<timeoutId, activeLeaf, activeFile, fm, content, editorTargets, canvasTargets, windowLog, textBlock, detectedDir, notice>>

(***************************************************************************)
(* The debounce timer fires: handleEditorMutationInner(batch).             *)
(***************************************************************************)
TimerFires ==
    /\ timeoutId # <<>>
    /\ dom' = [x \in Els |->
                 IF x \in timeoutId[1]
                 THEN handleEditorMutationInner(x, dom[x], settings, activeNoteOverride,
                                                observedEditorElements, activeFile)
                 ELSE dom[x]]
    /\ timeoutId' = TimerAfterWrites(<<>>,
                                     WrittenByHandler(timeoutId[1], dom, settings,
                                                      activeNoteOverride,
                                                      observedEditorElements, activeFile),
                                     editorTargets)
    /\ PluginUnchanged
    /\ UNCHANGED <<activeLeaf, activeFile, fm, content, editorTargets, canvasTargets>>

\* The timer fires, with time left out.
TimerFire == TimerFires /\ UNCHANGED <<windowLog, textBlock, detectedDir, notice>>

\* window.setTimeout(..., delay): the timer fires when delay has passed
\* since it was set, and time does not pass a timer that is due.
TimerDue == timeoutId # <<>> /\ windowLog.elapsed = Delay

TimedTimerFire ==
    /\ TimerDue
    /\ TimerFires
    /\ windowLog' = LogRun(windowLog, timeoutId[1])
    /\ UNCHANGED <<textBlock, detectedDir, notice>>

\* Half a delay passes.
Tick ==
    /\ windowLog.calls > 0
    /\ ~TimerDue
    /\ windowLog.elapsed <= Delay
    /\ windowLog' = [windowLog EXCEPT !.elapsed = @ + HalfDelay]
    /\ UNCHANGED <<pc, settings, activeNoteOverride, observedEditorElements,
                   observedCanvasContainers, timeoutId, writes, dom, activeLeaf,
                   activeFile, fm, content, editorTargets, canvasTargets,
                   textBlock, detectedDir, notice>>

(***************************************************************************)
(* The settings tab: onChange assigns the setting and awaits saveSettings, *)
(* which awaits saveData and then runs applyAllUiSettings.  saveData is    *)
(* taken to settle before the next event is handled.                       *)
(***************************************************************************)
ChangeSettingOf(keys) ==
    \E k \in keys :
        \E v \in SettingChoices[k] :
            /\ Loaded
            /\ settings[k] # v
            /\ settings' = [settings EXCEPT ![k] = v]
            /\ FullPass(settings', HasObserver)
            /\ timeoutId' = TimerAfterWrites(timeoutId, WrittenByPass(dom), editorTargets)
            /\ UNCHANGED <<pc, activeNoteOverride, writes, activeLeaf, activeFile, fm,
                       content, windowLog, textBlock, detectedDir, notice>>

ChangeSetting == ChangeSettingOf(ChangeableKeys)

\* The settings that reach a markdown editor.
EditorKeys == {"globalDefaultDirection", "editor", "enableAdvancedTextDetection"}

ChangeEditorSetting == ChangeSettingOf(EditorKeys)

\* The detection toggle alone.
ChangeDetection == ChangeSettingOf({"enableAdvancedTextDetection"})

\* The settings that reach a canvas card.
CardKeys == {"canvasCard", "enableAdvancedTextDetection"}

ChangeCardSetting == ChangeSettingOf(CardKeys)

\* The same while one region fails during the pass.
ChangeSettingFailingAt(k, v, fault) ==
    /\ Loaded
    /\ settings[k] # v
    /\ InDom(dom[fault.region])
    /\ settings' = [settings EXCEPT ![k] = v]
    /\ dom' = applyAllUiSettingsWithFault(dom, settings', activeNoteOverride, activeFile,
                                          HasObserver, observedEditorElements, fault)
    /\ LET e == EditorObserversAfterFaultyPass(dom, settings', activeNoteOverride, activeFile,
                                               HasObserver, observedEditorElements,
                                               editorTargets, fault)
       IN  observedEditorElements' = e.observed /\ editorTargets' = e.targets
    /\ LET c == CanvasObserversAfterPass(dom, HasObserver, observedCanvasContainers,
                                         canvasTargets)
       IN  observedCanvasContainers' = c.observed /\ canvasTargets' = c.targets
    /\ timeoutId' = TimerAfterWrites(timeoutId, {x \in Els : SeenByPass(x, dom, fault)},
                                     editorTargets)
    /\ UNCHANGED <<pc, activeNoteOverride, writes, activeLeaf, activeFile, fm,
                   content, windowLog, textBlock, detectedDir, notice>>

\* The settings changed while a region fails.
FaultKeys == {"editor", "canvasCard"}

ChangeSettingWithFault ==
    \E k \in FaultKeys :
        \E v \in SettingChoices[k], fault \in PassFaults : ChangeSettingFailingAt(k, v, fault)

(***************************************************************************)
(* The override entry points: the status bar click and the four commands.  *)
(* setNoteDirection assigns the override, then awaits the frontmatter      *)
(* write; the refresh runs when the write has settled.                     *)
(***************************************************************************)
\* The part of setNoteDirection before its await.  Without an active
\* markdown file it shows a Notice and returns.
\* Everything but the notice stays as it is.
OnlyNotice ==
    UNCHANGED <<pc, settings, activeNoteOverride, observedEditorElements,
                observedCanvasContainers, timeoutId, writes, dom, activeLeaf, activeFile,
                fm, content, editorTargets, canvasTargets, windowLog, textBlock,
                detectedDir>>

\* new Notice(activeFile ? "Direction can only be set for Markdown files."
\*                       : "No active file.")
RejectionNotice(af) ==
    IF af # "none" THEN "Direction can only be set for Markdown files." ELSE "No active file."

\* `Note direction ${direction ? 'set to ' + direction.toUpperCase()
\*                             : 'override cleared'}.`
DirectionNotice(direction) ==
    CASE direction = "ltr" -> "Note direction set to LTR."
      [] direction = "rtl" -> "Note direction set to RTL."
      [] direction = "auto" -> "Note direction set to AUTO."
      [] OTHER -> "Note direction override cleared."

\* An entry point that assigns the override before it looks at the active
\* file.
setNoteDirectionUnguarded(direction) ==
    /\ Len(writes) < MaxWrites
    /\ activeNoteOverride' = direction
    /\ notice' = IF IsMarkdown(activeFile) THEN notice ELSE RejectionNotice(activeFile)
    /\ writes' = IF IsMarkdown(activeFile)
                 THEN Append(writes, [file |-> activeFile, direction |-> direction])
                 ELSE writes
    /\ UNCHANGED <<pc, settings, observedEditorElements, observedCanvasContainers,
                   timeoutId, dom, activeLeaf, activeFile, fm, content,
                   editorTargets, canvasTargets, windowLog, textBlock, detectedDir>>

setNoteDirection(direction) ==
    IF ~IsMarkdown(activeFile)
    THEN notice' = RejectionNotice(activeFile) /\ OnlyNotice
    ELSE /\ Len(writes) < MaxWrites
         /\ activeNoteOverride' = direction
         /\ writes' = Append(writes, [file |-> activeFile, direction |-> direction])
         /\ UNCHANGED <<pc, settings, observedEditorElements, observedCanvasContainers,
                        timeoutId, dom, activeLeaf, activeFile, fm, content,
                        editorTargets, canvasTargets, windowLog, textBlock, detectedDir, notice>>

\* The click handler of the status bar item: its own check of the active
\* file, then setNoteDirection(nextDirection).
StatusBarClick ==
    /\ Loaded
    /\ IF ~IsMarkdown(activeFile)
       THEN notice' = "Open a markdown note to change its direction." /\ OnlyNotice
       ELSE setNoteDirection(NextDirection(activeNoteOverride))

Command ==
    \E direction \in OverrideValues :
        /\ Loaded
        /\ setNoteDirection(direction)

RemoveAt(q, i) == SubSeq(q, 1, i - 1) \o SubSeq(q, i + 1, Len(q))

\* processFrontMatter settled for one pending call (ok: it wrote; ~ok: it
\* threw and updateNoteFrontmatterDirection caught it, showing "Error
\* updating note direction in frontmatter."); the rest of setNoteDirection
\* runs and its Notice is the last one shown.
WriteSettled ==
    \E i \in 1..Len(writes), ok \in BOOLEAN :
        /\ writes' = RemoveAt(writes, i)
        /\ fm' = IF ok THEN [fm EXCEPT ![writes[i].file] = FrontmatterAfterWrite(writes[i].direction)]
                 ELSE fm
        /\ dom' = refreshActiveEditorDirection(dom, activeLeaf, settings, activeNoteOverride,
                                               observedEditorElements, activeFile, HasObserver)
        /\ timeoutId' = TimerAfterWrites(timeoutId, WrittenByRefresh(dom, activeLeaf),
                                         editorTargets)
        /\ notice' = DirectionNotice(writes[i].direction)
        /\ UNCHANGED <<pc, settings, activeNoteOverride, observedEditorElements,
                       observedCanvasContainers, activeLeaf, activeFile,
                       content, editorTargets, canvasTargets, windowLog, textBlock, detectedDir>>

Next ==
    \/ OpenEditor
    \/ CloseEditor
    \/ OpenCanvas
    \/ CloseCanvas
    \/ EditText
    \/ LoadPass
    \/ LoadFinish
    \/ Unload
    \/ ActivateEditor
    \/ ActivateOther
    \/ InsertCard
    \/ TimerFire
    \/ ChangeSetting
    \/ StatusBarClick
    \/ Command
    \/ WriteSettled

Spec == Init /\ [][Next]_vars

(***************************************************************************)
(* The markdown editors and the settings tab, without the canvas and the   *)
(* override commands: the canvas shares with the editors only the settings.*)
(***************************************************************************)
NextEditors ==
    \/ OpenEditor
    \/ CloseEditor
    \/ EditText
    \/ LoadPass
    \/ LoadFinish
    \/ Unload
    \/ ActivateEditor
    \/ ActivateOther
    \/ TimerFire
    \/ ChangeEditorSetting

SpecEditors == Init /\ [][NextEditors]_vars

\* The same with the scheduling the host guarantees: a timer that is set
\* fires, and onload runs to its end.
FairSpecEditors == SpecEditors /\ WF_vars(TimerFire) /\ WF_vars(LoadFinish)

(***************************************************************************)
(* The debounce with its clock: edits, the passing of time and the timer,  *)
(* in a workspace whose editors become observed when detection is toggled. *)
(***************************************************************************)
NextDebounce ==
    \/ OpenEditor
    \/ LoadPass
    \/ LoadFinish
    \/ ActivateEditor
    \/ ChangeDetection
    \/ TimedEditText
    \/ TimedTimerFire
    \/ Tick

SpecDebounce == Init /\ [][NextDebounce]_vars

(***************************************************************************)
(* The override of one note: the status bar, the commands and the          *)
(* frontmatter writes, under the settings that load.                       *)
(***************************************************************************)
NextOverride ==
    \/ OpenNoteA
    \/ CloseEditor
    \/ LoadPass
    \/ LoadFinish
    \/ Unload
    \/ ActivateEditor
    \/ ActivateOther
    \/ StatusBarClick
    \/ Command
    \/ WriteSettled

SpecOverride == Init /\ [][NextOverride]_vars

(***************************************************************************)
(* The whole workspace under the settings tab: editors, the canvas with    *)
(* its cards and the side containers, without text edits and override      *)
(* commands.                                                               *)
(***************************************************************************)
NextWorkspace ==
    \/ OpenEditor
    \/ CloseEditor
    \/ OpenCanvas
    \/ CloseCanvas
    \/ InsertCard
    \/ LoadPass
    \/ LoadFinish
    \/ Unload
    \/ ActivateEditor
    \/ ActivateOther
    \/ ChangeSetting

SpecWorkspace == Init /\ [][NextWorkspace]_vars

(***************************************************************************)
(* The settings tab in a workspace where a region may fail during a pass.  *)
(***************************************************************************)
NextFaults ==
    \/ OpenNoteA
    \/ OpenCanvas
    \/ InsertCard
    \/ LoadPass
    \/ LoadFinish
    \/ ActivateEditor
    \/ ChangeSettingWithFault

SpecFaults == Init /\ [][NextFaults]_vars

(***************************************************************************)
(* The classifier called directly: getBlockDirection(textBlock) for every  *)
(* short text over a small alphabet, some longer texts, and values that    *)
(* are not strings.                                                        *)
(***************************************************************************)
\* Hebrew alef, Arabic alef, 'a', '1', ' ', '#', '`', '-'
Alphabet == {1488, 1575, 97, 49, 32, 35, 96, 45}

ShortTexts == UNION {[1..n -> Alphabet] : n \in 0..MaxTextLen}

\* A fence followed by Hebrew, "1. Hi", "- [x] # > " followed by Hebrew,
\* "123 " followed by Arabic, "ab " followed by Hebrew, and the
\* Arabic-Indic digits 4 5 6.
LongTexts ==
    {<<96, 96, 96, 1488>>,
     <<1636, 1637, 1638>>,
     <<49, 46, 32, 72, 105>>,
     <<45, 32, 91, 120, 93, 32, 35, 32, 62, 32, 1488>>,
     <<49, 50, 51, 32, 1575, 1576>>,
     <<97, 98, 32, 1488, 1489, 1490>>}

ClassifierInputs ==
    {JsString(t) : t \in ShortTexts \cup LongTexts}
        \cup {JsUndefined, JsNull, JsNumber, JsObject}

InitClassifier ==
    /\ Constructed
    /\ textBlock \in ClassifierInputs
    /\ detectedDir = "pending"

\* The call returns.
Classify ==
    /\ detectedDir = "pending"
    /\ detectedDir' = getBlockDirectionOf(textBlock)
    /\ UNCHANGED <<pc, settings, activeNoteOverride, observedEditorElements,
                   observedCanvasContainers, timeoutId, writes, dom, activeLeaf,
                   activeFile, fm, content, editorTargets, canvasTargets, windowLog,
                   textBlock, notice>>

NextClassifier == Classify

SpecClassifier == InitClassifier /\ [][NextClassifier]_vars

(***************************************************************************)
(* Both observers at work: edits of the active note and cards inserted     *)
(* into the canvas, next to file opens that load an override, until the    *)
(* plugin is unloaded.                                                     *)
(***************************************************************************)
NextWatchers ==
    \/ OpenEditor
    \/ OpenCanvas
    \/ InsertCard
    \/ EditText
    \/ TimerFire
    \/ LoadPass
    \/ LoadFinish
    \/ ActivateEditor
    \/ ChangeCardSetting
    \/ Unload

SpecWatchers == Init /\ [][NextWatchers]_vars

(***************************************************************************)
(* Properties.                                                             *)
(***************************************************************************)
\* A step that runs applyAllUiSettings: the pass of onload or the pass of
\* saveSettings.
LoadPassStep == pc = "constructed" /\ pc' = "loading"
SettingsPassStep == Loaded /\ settings' # settings
PassStep == LoadPassStep \/ SettingsPassStep

\* C1: every region a direction has been applied to carries an effective
\* direction that is ltr or rtl, never auto, and the matching mode class.
C1_EffectiveIsConcrete ==
    \A x \in Els :
        dom[x].dir # "none" =>
            /\ dom[x].eff \in {"ltr", "rtl"}
            /\ ModeClass(dom[x].eff) \in dom[x].cls
            /\ "auto-mode" \notin dom[x].cls

\* An editor set to auto while detection is off and the global default is
\* auto: the fallback gave it ltr.
C1_Witness ==
    \E x \in EditorEls :
        /\ dom[x].dir = "auto"
        /\ ~settings.enableAdvancedTextDetection
        /\ settings.globalDefaultDirection = "auto"
        /\ dom[x].eff = "ltr"

\* C2 (as stated): after a full pass every live editor is resolved with the
\* override whenever the override is not none.
C2_OverrideWinsEverywhere ==
    [][(PassStep /\ activeNoteOverride' # "null") =>
          \A x \in LiveEditors(dom') : dom'[x].dir = activeNoteOverride']_vars

\* C2 (amended): whenever the override is not none, every editor that shows
\* the active document is resolved with the override and not with the
\* editor default: by a full pass, by the refresh that follows a file open,
\* and by a mutation-driven reclassification (which runs only for an auto
\* override and leaves the region alone for ltr and rtl).
C2_OverrideWinsForActiveDocument ==
    [][/\ (PassStep /\ activeNoteOverride' # "null") =>
            \A x \in EditorsOfFile(dom', activeFile') : dom'[x].dir = activeNoteOverride'
       /\ \A x \in EditorEls, readOk \in BOOLEAN :
            (Loaded /\ ActivateEditorWith(x, readOk) /\ activeNoteOverride' # "null") =>
                dom'[x].dir = activeNoteOverride'
       /\ (TimerFire /\ activeNoteOverride # "null") =>
            \A x \in timeoutId[1] :
                MutationConcerns(x, dom[x], observedEditorElements, activeFile) =>
                    dom'[x].eff = IF activeNoteOverride = "auto"
                                     /\ settings.enableAdvancedTextDetection
                                  THEN DetectedDirection(dom[x].text)
                                  ELSE dom[x].eff]_vars

\* A full pass has given the override to an editor of the active document
\* that is not the active leaf, against a different editor default.
C2_Witness ==
    /\ activeNoteOverride = "rtl"
    /\ settings.editor # "rtl"
    /\ \E x \in EditorsOfFile(dom, activeFile) : x # activeLeaf /\ dom[x].dir = "rtl"

\* C3 (as stated): after every full pass, the pass of onload included, each
\* live editor that resolves to auto with detection enabled is recorded in
\* the registry, is observed, and carries the classification of its text.
C3_QualifyingAreWatched ==
    [][PassStep =>
          \A x \in QualifyingEditors(dom', settings', activeNoteOverride', activeFile') :
              /\ x \in observedEditorElements'
              /\ x \in editorTargets'
              /\ dom'[x].eff = DetectedDirection(dom'[x].text)]_vars

\* After load an editor resolves to auto with detection enabled and is not
\* in the registry.
C3_Witness ==
    /\ Loaded
    /\ \E x \in QualifyingEditors(dom, settings, activeNoteOverride, activeFile) :
           x \notin observedEditorElements

\* C4 (as stated): after every full pass the registry holds only editors
\* that resolve to auto with detection enabled.
C4_OnlyQualifyingAreRegistered ==
    [][PassStep =>
          observedEditorElements' \subseteq
              QualifyingEditors(dom', settings', activeNoteOverride', activeFile')]_vars

\* A live editor is still registered although it resolves to ltr or rtl, or
\* detection is off.
C4_Witness ==
    \E x \in observedEditorElements :
        /\ InDom(dom[x])
        /\ x \notin QualifyingEditors(dom, settings, activeNoteOverride, activeFile)

\* Editor x has had a direction applied and shows the active document, whose
\* text has been edited since it was opened; it resolves to auto while
\* detection is enabled.
C5_EditedAutoEditor(x) ==
    /\ Loaded
    /\ InDom(dom[x])
    /\ dom[x].dir # "none"
    /\ IsMarkdown(activeFile)
    /\ dom[x].file = activeFile
    /\ content[activeFile] # TextOfFile(activeFile)
    /\ UserDirectionForThisEditor(settings, activeNoteOverride) = "auto"
    /\ settings.enableAdvancedTextDetection

\* C5 (as stated): an editor of the active document that resolves to auto
\* with detection enabled and whose text was edited eventually carries the
\* classification of its current text, under a fair debounce timer.
C5_EditorConverges ==
    \A x \in EditorEls :
        C5_EditedAutoEditor(x) ~>
            (C5_EditedAutoEditor(x) => dom[x].eff = DetectedDirection(dom[x].text))

\* An edited editor of the active document resolves to auto, carries rtl
\* against a text classified ltr, and no timer is pending.
C5_Witness ==
    \E x \in EditorEls :
        /\ C5_EditedAutoEditor(x)
        /\ timeoutId = <<>>
        /\ dom[x].eff # DetectedDirection(dom[x].text)

\* The notifications so far came as one burst, each less than the delay
\* after the one before it.
C6_Burst == windowLog.spacing \in {"one", "burst"}

\* The notifications so far came each more than the delay after the one
\* before it.
C6_Spaced == windowLog.spacing \in {"one", "spaced"}

\* C6 (as stated): once the timer has fired, a burst of notifications has
\* produced exactly one handler run over each editor a notification named,
\* and notifications spaced further apart than the delay have produced one
\* run each.
C6_OnceForEachAffectedRegion ==
    timeoutId = <<>> =>
        /\ C6_Burst =>
              \A x \in EditorEls :
                  windowLog.notified[x] > 0 => windowLog.handled[x] = 1
        /\ C6_Spaced =>
              \A x \in EditorEls : windowLog.handled[x] = windowLog.notified[x]

\* C6 (amended): once the timer has fired, a burst of notifications has
\* produced exactly one handler run, over the editors of the most recent
\* notification only, and notifications spaced further apart than the
\* delay have produced one run each, over the editors each named.
C6_OncePerWindowWithLastBatch ==
    timeoutId = <<>> =>
        /\ C6_Burst =>
              /\ windowLog.runs = 1
              /\ \A x \in EditorEls :
                     windowLog.handled[x] = IF x \in windowLog.last THEN 1 ELSE 0
        /\ C6_Spaced =>
              /\ windowLog.runs = windowLog.calls
              /\ \A x \in EditorEls : windowLog.handled[x] = windowLog.notified[x]

\* A burst of three notifications, the earlier ones naming an editor the
\* last one did not name, was followed by one run.
C6_Witness ==
    /\ timeoutId = <<>>
    /\ windowLog.spacing = "burst"
    /\ windowLog.calls = 3
    /\ windowLog.runs = 1
    /\ \E x \in EditorEls : windowLog.notified[x] > 0 /\ x \notin windowLog.last

\* The cycle of the status bar item: none, ltr, rtl, auto, none.
C7_Cycle ==
    [d \in OverrideValues |->
        CASE d = "null" -> "ltr"
          [] d = "ltr" -> "rtl"
          [] d = "rtl" -> "auto"
          [] d = "auto" -> "null"]

\* C7: with an active markdown document each click of the status bar item
\* moves the override one step along none, ltr, rtl, auto, none from its
\* current value, and asks for that value to be stored.
C7_StatusCycle ==
    [][(StatusBarClick /\ IsMarkdown(activeFile)) =>
          /\ activeNoteOverride' = C7_Cycle[activeNoteOverride]
          /\ writes' = Append(writes, [file |-> activeFile,
                                       direction |-> C7_Cycle[activeNoteOverride]])]_vars

\* Two clicks in a row took the override from ltr through rtl to auto.
C7_Witness ==
    /\ Len(writes) = 2
    /\ writes[1].direction = "rtl"
    /\ writes[2].direction = "auto"
    /\ activeNoteOverride = "auto"

\* C8 (as stated): when the last outstanding frontmatter write of the
\* active note settles, successfully or not, and the override is still the
\* value that write carried, the override equals the stored value.
C8_OverrideEqualsStored ==
    [][(/\ Len(writes) = 1
        /\ writes' = <<>>
        /\ writes[1].file = activeFile
        /\ activeNoteOverride = writes[1].direction) =>
          activeNoteOverride' = OverrideFromFrontmatter(fm'[activeFile'])]_vars

\* No write is outstanding; the override is ltr and the note still stores
\* the value it had before the command.
C8_Witness ==
    /\ Loaded
    /\ writes = <<>>
    /\ activeFile = "A"
    /\ activeNoteOverride = "ltr"
    /\ fm["A"] = "bad"

\* The override a file open is to leave.
C9_Expected(file, readOk) ==
    IF file \in MdFiles /\ readOk /\ fm[file] \in {"ltr", "rtl", "auto"}
    THEN fm[file]
    ELSE "null"

\* C9: when a document becomes active the override becomes its stored
\* value if that is ltr, rtl or auto, and none for an absent or other value,
\* a failed read or a file that is not markdown; the handler completes and
\* the active editor is refreshed with the resulting resolution.
C9_FileOpenLoadsOverride ==
    [][/\ \A x \in EditorEls, readOk \in BOOLEAN :
            (Loaded /\ ActivateEditorWith(x, readOk)) =>
                /\ activeNoteOverride' = C9_Expected(dom[x].file, readOk)
                /\ dom'[x].dir = IF activeNoteOverride' # "null"
                                  THEN activeNoteOverride' ELSE settings.editor
       /\ \A readOk \in BOOLEAN :
            (LoadFinishWith(readOk) /\ activeFile # "none") =>
                /\ pc' = "loaded"
                /\ activeNoteOverride' = C9_Expected(activeFile, readOk)
                /\ activeLeaf # NoLeaf =>
                       dom'[activeLeaf].dir = IF activeNoteOverride' # "null"
                                              THEN activeNoteOverride' ELSE settings.editor]_vars

\* Note A, which stores a value that is none of the three, is active: the
\* override is none and its editor carries the editor default.
C9_Witness ==
    /\ Loaded
    /\ activeFile = "A"
    /\ fm["A"] = "bad"
    /\ activeLeaf # NoLeaf
    /\ activeNoteOverride = "null"
    /\ dom[activeLeaf].dir = settings.editor

\* The active view stops being a markdown view while its editor stays in
\* the document: 'active-leaf-change' clears the override.
C10_ViewChangeClears ==
    /\ Loaded
    /\ activeLeaf # NoLeaf
    /\ activeLeaf' = NoLeaf
    /\ InDom(dom'[activeLeaf])
    /\ activeNoteOverride # "null"

\* The last outstanding write of the active note settles with its editor
\* still the active view.
C10_SetCompletes ==
    /\ Len(writes) = 1
    /\ writes' = <<>>
    /\ writes[1].file = activeFile
    /\ activeLeaf # NoLeaf

\* C10 (as stated): after an operation that sets or clears the override
\* has completed, the editor of the document concerned carries the
\* resolution of the new override state.
C10_EditorFollowsOverride ==
    [][(C10_ViewChangeClears \/ C10_SetCompletes) =>
          /\ dom'[activeLeaf].dir = DirectionToApply(settings', activeNoteOverride')
          /\ dom'[activeLeaf].eff =
                 EffectiveDirection(dom'[activeLeaf],
                                    DirectionToApply(settings', activeNoteOverride'), settings')]_vars

\* No markdown view is active and the override is none, yet an editor of the
\* most recent document still carries rtl against an editor default of auto.
C10_Witness ==
    /\ Loaded
    /\ activeLeaf = NoLeaf
    /\ activeNoteOverride = "null"
    /\ settings.editor = "auto"
    /\ \E x \in EditorsOfFile(dom, activeFile) : dom[x].dir = "rtl"

\* The regions of every kind: editors, side containers and canvas cards.
C11_Regions == EditorEls \cup PanelEls \cup CardEls

\* The effective direction that resolving setting dir yields for a region
\* with the given text.
C11_Effective(dir, text, S) ==
    IF dir # "auto" THEN dir
    ELSE IF S.enableAdvancedTextDetection THEN DetectedDirection(text)
    ELSE IF S.globalDefaultDirection = "auto" THEN "ltr"
    ELSE S.globalDefaultDirection

\* The per-kind default of a region.
C11_KindDefault(x, S) == IF x \in EditorEls THEN S.editor ELSE ContainerSetting(x, S)

\* C11 (as stated): after a settings change every live region of every kind
\* carries the resolution of the new settings and the current override, the
\* override replacing the default of every editor.
C11_AllRegionsFollowSettings ==
    [][SettingsPassStep =>
          \A x \in C11_Regions :
              InDom(dom'[x]) =>
                  LET dir == IF x \in EditorEls /\ activeNoteOverride' # "null"
                             THEN activeNoteOverride'
                             ELSE C11_KindDefault(x, settings')
                  IN  /\ dom'[x].dir = dir
                      /\ dom'[x].eff = C11_Effective(dir, dom'[x].text, settings')]_vars

\* C11 (amended): after a settings change every live region of every kind
\* carries the resolution of the new settings, the override replacing the
\* editor default for the editors that show the active document.
C11_AllRegionsFollowSettingsOfActiveDocument ==
    [][SettingsPassStep =>
          \A x \in C11_Regions :
              InDom(dom'[x]) =>
                  LET dir == IF /\ x \in EditorEls
                                /\ activeNoteOverride' # "null"
                                /\ dom'[x].file = activeFile'
                             THEN activeNoteOverride'
                             ELSE C11_KindDefault(x, settings')
                  IN  /\ dom'[x].dir = dir
                      /\ dom'[x].eff = C11_Effective(dir, dom'[x].text, settings')]_vars

\* Settings that no load yields are in force, and an editor, a canvas card
\* and the search results each carry their resolution: rtl from the global
\* default for the two set to auto, rtl for the card.
C11_Witness ==
    /\ Loaded
    /\ settings.canvasCard = "rtl"
    /\ ~settings.enableAdvancedTextDetection
    /\ settings.globalDefaultDirection = "rtl"
    /\ \E x \in EditorEls : dom[x].dir = "auto" /\ dom[x].eff = "rtl"
    /\ \E c \in CardEls : dom[c].dir = "rtl" /\ dom[c].eff = "rtl"
    /\ dom[<<"searchResults", 0>>].dir = "auto"
    /\ dom[<<"searchResults", 0>>].eff = "rtl"

\* C12: a full pass leaves no region that has left the document in either
\* registry set, and when a registry set that held such a region is empty
\* after the pass, the observer of that category observes nothing any more.
C12_RemovedRegionsAreDropped ==
    [][PassStep =>
          /\ \A x \in observedEditorElements' : InDom(dom'[x])
          /\ \A x \in observedCanvasContainers' : InDom(dom'[x])
          /\ ((\E x \in observedEditorElements : ~InDom(dom[x])) /\ observedEditorElements' = {})
                 => editorTargets' = {}
          /\ ((\E x \in observedCanvasContainers : ~InDom(dom[x])) /\ observedCanvasContainers' = {})
                 => canvasTargets' = {}]_vars

\* An editor that was observed has left the document and a pass has taken
\* it out of the registry, which still holds another editor; the canvas
\* container has left the document too, and neither the registry nor the
\* canvas observer holds it.
C12_Witness ==
    /\ Loaded
    /\ \E x \in editorTargets : ~InDom(dom[x]) /\ x \notin observedEditorElements
    /\ observedEditorElements # {}
    /\ dom[CanvasNodes].st = "gone"
    /\ observedCanvasContainers = {}
    /\ canvasTargets = {}

\* The pass of this step is the pass in which the region of the fault
\* failed.
C13_PassFailedAt(fault) ==
    /\ InDom(dom[fault.region])
    /\ fault.kind = "throws" => dom'[fault.region].eff = "none"
    /\ fault.kind = "vanished" => dom'[fault.region] = dom[fault.region]
    /\ dom' = applyAllUiSettingsWithFault(dom, settings', activeNoteOverride, activeFile,
                                          HasObserver, observedEditorElements, fault)

\* The live regions that do not carry their resolution after the step.
C13_Unresolved ==
    {x \in C11_Regions :
        /\ InDom(dom'[x])
        /\ LET dir == IF /\ x \in EditorEls
                         /\ activeNoteOverride' # "null"
                         /\ dom'[x].file = activeFile'
                      THEN activeNoteOverride'
                      ELSE C11_KindDefault(x, settings')
           IN  ~(/\ dom'[x].dir = dir
                 /\ dom'[x].eff = C11_Effective(dir, dom'[x].text, settings'))}

\* Neither registry set holds a region that has left the document.
C13_RegistryCleaned ==
    \A x \in observedEditorElements' \cup observedCanvasContainers' : InDom(dom'[x])

RECURSIVE C14_FirstStrongInRange(_, _, _)
C14_FirstStrongInRange(s, i, n) ==
    IF i > n THEN "none"
    ELSE IF isRtlCharByClass(<<s[i]>>) THEN "rtl"
    ELSE IF IsBasicLatin(s[i]) THEN "ltr"
    ELSE C14_FirstStrongInRange(s, i + 1, n)

\* The first strong character of a text that does not begin with a fence,
\* after the markdown marker is stripped and the neutral characters are
\* skipped, looked for among the first 200 units.
C14_FirstStrongOf(text) ==
    CHOOSE f \in {C14_FirstStrongInRange(p, 1, Min(Len(p), 200)) :
                     p \in {SkipNeutral(t) :
                         t \in {Trim(u) : u \in {StripMarkdownPrefixes(text)}}}} : TRUE

\* C14 (as stated): a returned call on a text that does not begin with a
\* fence returned rtl when the first strong character lies in a Hebrew or
\* Arabic-family range and ltr when it is a basic-Latin letter.
C14_FirstStrongDecides ==
    (/\ detectedDir \in {"ltr", "rtl"}
     /\ textBlock.type = "string"
     /\ ~StartsWithFence(textBlock.value)) =>
        \A f \in {C14_FirstStrongOf(textBlock.value)} :
            /\ f = "rtl" => detectedDir = "rtl"
            /\ f = "ltr" => detectedDir = "ltr"

\* The call on "# " followed by a Hebrew alef has returned ltr.
C14_Witness ==
    /\ textBlock = JsString(<<35, 32, 1488>>)
    /\ detectedDir = "ltr"

\* The text is empty once the markdown markers are stripped and the
\* neutral characters are skipped.
C15_EmptyAfterProcessing(text) ==
    \A p \in {SkipNeutral(t) : t \in {Trim(u) : u \in {StripMarkdownPrefixes(text)}}} :
        Len(p) = 0

\* The inputs for which the result is to be ltr.
C15_DefaultCase(v) ==
    \/ v.type # "string"
    \/ Len(v.value) = 0
    \/ StartsWithFence(v.value)
    \/ C15_EmptyAfterProcessing(v.value)
    \/ \A i \in 1..Len(v.value) : ~IsLetter(v.value[i])

\* C15: every call that has returned returned ltr or rtl, and it returned
\* ltr for a value that is not a string, for the empty string, for a text
\* that is empty after stripping and skipping, for a text without letters
\* and for a text that begins with a fence.
C15_DefaultsToLtr ==
    /\ detectedDir \in {"pending", "ltr", "rtl"}
    /\ (detectedDir # "pending" /\ C15_DefaultCase(textBlock)) => detectedDir = "ltr"

\* The call on a fence followed by a Hebrew letter has returned ltr.
C15_Witness ==
    /\ textBlock = JsString(<<96, 96, 96, 1488>>)
    /\ detectedDir = "ltr"

\* C16: while detection is disabled, every region whose applied setting is
\* auto carries the global default when that is ltr or rtl, and ltr when
\* the global default is auto, whatever its text.
C16_FallbackWithoutDetection ==
    ~settings.enableAdvancedTextDetection =>
        \A x \in Els :
            (InDom(dom[x]) /\ dom[x].dir = "auto") =>
                dom[x].eff = IF settings.globalDefaultDirection \in {"ltr", "rtl"}
                             THEN settings.globalDefaultDirection
                             ELSE "ltr"

\* Detection is off and the global default is rtl: an editor set to auto
\* whose note was edited, and the search results, carry rtl.
C16_Witness ==
    /\ ~settings.enableAdvancedTextDetection
    /\ settings.globalDefaultDirection = "rtl"
    /\ \E x \in EditorEls :
           /\ InDom(dom[x])
           /\ dom[x].dir = "auto"
           /\ dom[x].eff = "rtl"
           /\ dom[x].text # TextOfFile(dom[x].file)
    /\ dom[<<"searchResults", 0>>].dir = "auto"
    /\ dom[<<"searchResults", 0>>].eff = "rtl"

C17_Concrete(d) == d \in {"ltr", "rtl"}

\* C17 (as stated): a region whose resolved setting is ltr or rtl carries
\* that setting as its effective direction after a full pass, after the
\* targeted refresh that follows a file open, and after a mutation-driven
\* reclassification, which leaves the region as it was (its text is not
\* classified).
C17_ConcreteSettingIsEffective ==
    [][/\ PassStep =>
            \A x \in C11_Regions :
                (/\ InDom(dom'[x])
                 /\ C17_Concrete(DirInPass(x, dom, settings', activeNoteOverride, activeFile))) =>
                    dom'[x].eff = DirInPass(x, dom, settings', activeNoteOverride, activeFile)
       /\ \A x \in EditorEls, readOk \in BOOLEAN :
            (/\ Loaded
             /\ ActivateEditorWith(x, readOk)
             /\ C17_Concrete(DirectionToApply(settings, activeNoteOverride'))) =>
                dom'[x].eff = DirectionToApply(settings, activeNoteOverride')
       /\ TimerFire =>
            \A x \in timeoutId[1] :
                (/\ MutationConcerns(x, dom[x], observedEditorElements, activeFile)
                 /\ C17_Concrete(UserDirectionForThisEditor(settings, activeNoteOverride))) =>
                    /\ dom'[x] = dom[x]
                    /\ dom'[x].eff = UserDirectionForThisEditor(settings, activeNoteOverride)]_vars

\* The override is rtl and the active note has been edited; no timer is
\* pending, and an observed editor of the note that is not the active leaf
\* still carries auto with the effective direction ltr.
C17_Witness ==
    /\ Loaded
    /\ activeNoteOverride = "rtl"
    /\ IsMarkdown(activeFile)
    /\ content[activeFile] # TextOfFile(activeFile)
    /\ timeoutId = <<>>
    /\ \E x \in observedEditorElements :
           /\ x # activeLeaf
           /\ InDom(dom[x])
           /\ dom[x].file = activeFile
           /\ dom[x].dir = "auto"
           /\ dom[x].eff = "ltr"

\* C18 (as stated): while the plugin is loaded, the step that inserts a
\* card into a live canvas leaves the card with the canvas-card setting
\* applied and resolved; nothing is left pending.
C18_NewCardGetsDirection ==
    [][\A c \in CardEls :
          (/\ Loaded
           /\ InDom(dom[CanvasNodes])
           /\ dom[c].st = "unused"
           /\ dom'[c].st = "live") =>
              /\ dom'[c].dir = settings.canvasCard
              /\ dom'[c].eff = C11_Effective(settings.canvasCard, dom'[c].text, settings)
              /\ timeoutId' = timeoutId]_vars

\* The plugin is loaded and a card of the live canvas carries no direction.
C18_Witness ==
    /\ Loaded
    /\ InDom(dom[CanvasNodes])
    /\ \E c \in CardEls : InDom(dom[c]) /\ dom[c].dir = "none" /\ dom[c].eff = "none"

\* The debounced editor handler runs in this step.
C19_EditorCallback == timeoutId # <<>> /\ timeoutId' = <<>>

\* The canvas handler runs in this step for a card inserted under an
\* observed container.
C19_CanvasCallback ==
    /\ CanvasNodes \in canvasTargets
    /\ \E c \in CardEls : dom[c].st = "unused" /\ dom'[c].st = "live"

\* C19: a step in which a watcher callback runs leaves both registry sets,
\* both observers, the in-memory override, the stored overrides and the
\* pending writes as they were; of the regions that exist it changes at
\* most the direction marking.
C19_CallbacksKeepRegistryAndOverride ==
    [][(C19_EditorCallback \/ C19_CanvasCallback) =>
          /\ UNCHANGED <<observedEditorElements, observedCanvasContainers, editorTargets,
                         canvasTargets, activeNoteOverride, fm, writes, settings>>
          /\ \A x \in Els :
                 dom[x].st # "unused" =>
                     /\ dom'[x].st = dom[x].st
                     /\ dom'[x].text = dom[x].text
                     /\ dom'[x].file = dom[x].file]_vars

\* A card inserted under the observed canvas container carries a direction,
\* the active note has been edited and no timer is pending; both registry
\* sets are still filled and the override is still rtl.
C19_Witness ==
    /\ CanvasNodes \in observedCanvasContainers
    /\ observedEditorElements # {}
    /\ \E c \in CardEls : InDom(dom[c]) /\ dom[c].dir # "none"
    /\ activeNoteOverride = "rtl"
    /\ timeoutId = <<>>
    /\ IsMarkdown(activeFile)
    /\ content[activeFile] # TextOfFile(activeFile)

\* C20: for every region in the state it has reached and every direction
\* setting, applying the setting a second time, with the text and the
\* settings as they are, leaves the data-direction attribute, the
\* data-effective-direction attribute and the classes as the first
\* application left them.
C20_ApplyTwiceIsApplyOnce ==
    \A x \in Els, direction \in DirectionSetting :
        \A once \in {applyDirectionToElement(dom[x], direction, settings)} :
            applyDirectionToElement(once, direction, settings) = once

\* The active editor carries auto with its two classes after a refresh, and
\* the search results carry a direction applied by more than one pass.
C20_Witness ==
    /\ Loaded
    /\ activeLeaf # NoLeaf
    /\ dom[activeLeaf].dir = "auto"
    /\ dom[activeLeaf].cls = {"auto-detect-direction", ModeClass(dom[activeLeaf].eff)}
    /\ settings \notin LoadableSettings
    /\ dom[<<"searchResults", 0>>].cls =
           {"auto-detect-direction", ModeClass(dom[<<"searchResults", 0>>].eff)}

\* C21: each registry set equals the set of nodes its mutation observer is
\* attached to; in particular a region that cleanup dropped from a registry
\* set is observed no more.
C21_RegistryEqualsObserved ==
    /\ observedEditorElements = editorTargets
    /\ observedCanvasContainers = canvasTargets

\* After a settings pass whose cleanup dropped a closed editor while another
\* editor stays registered, the editor observer is still attached to the
\* closed one.
C21_Witness ==
    /\ Loaded
    /\ observedEditorElements # {}
    /\ \A x \in observedEditorElements : InDom(dom[x])
    /\ editorTargets \ observedEditorElements # {}
    /\ \A x \in editorTargets \ observedEditorElements : dom[x].st = "gone"

\* The step delivers a content-mutation notification to the debounced
\* handler.
C22_Notification == windowLog'.calls = windowLog.calls + 1

\* The step runs the deferred reclassification.
C22_Run == windowLog'.runs = windowLog.runs + 1

\* C22: at most one deferred editor reclassification is pending, and the
\* pending one carries the batch of the most recent notification.  A
\* notification runs nothing itself: it leaves exactly one pending
\* invocation, with its own batch and the whole delay ahead, also when one
\* was pending before; the invocation runs when the whole delay has passed
\* since the last notification.
C22_AtMostOnePendingWithLastBatch ==
    [][/\ Len(timeoutId') <= 1
       /\ timeoutId' # <<>> => timeoutId'[1] = windowLog'.last
       /\ C22_Notification =>
             /\ timeoutId' = <<NotifiedEditors>>
             /\ windowLog'.elapsed = 0
             /\ windowLog'.runs = windowLog.runs
             /\ \A x \in EditorEls : dom'[x].eff = dom[x].eff
       /\ C22_Run =>
             /\ windowLog.elapsed = Delay
             /\ timeoutId = <<windowLog.last>>
             /\ timeoutId' = <<>>]_vars

\* A second notification arrived half a delay after the first, while the
\* first invocation was pending; nothing has run, and the pending
\* invocation holds the batch of the second, which lacks an editor the
\* first one named.
C22_Witness ==
    /\ windowLog.calls = 2
    /\ windowLog.spacing = "burst"
    /\ windowLog.runs = 0
    /\ windowLog.elapsed = 0
    /\ timeoutId = <<windowLog.last>>
    /\ \E x \in EditorEls : windowLog.notified[x] = 1 /\ x \notin windowLog.last

\* The deferred reclassification runs in this step.
C23_Reclassification == timeoutId # <<>> /\ timeoutId' = <<>>

\* C23: a mutation-driven reclassification changes only regions of its
\* batch that are in the editor registry when it runs and show the active
\* document, and of those only the effective direction and the mode
\* classes; every other region, the editors of background documents and the
\* editors no longer registered among them, is left as it was.
C23_OnlyRegisteredEditorsOfActiveDocument ==
    [][C23_Reclassification =>
          \A x \in Els :
              dom'[x] # dom[x] =>
                  /\ x \in timeoutId[1]
                  /\ x \in observedEditorElements
                  /\ IsMarkdown(activeFile)
                  /\ dom[x].file = activeFile
                  /\ dom'[x] = [dom[x] EXCEPT !.eff = dom'[x].eff, !.cls = dom'[x].cls]]_vars

\* No timer is pending; a registered editor of the active document has been
\* reclassified (its effective direction is the detected one while its
\* data-direction still says rtl), and a registered editor of a background
\* document whose text was edited carries the marking of its last pass.
C23_Witness ==
    /\ Loaded
    /\ timeoutId = <<>>
    /\ \E x \in observedEditorElements :
           /\ dom[x].file = activeFile
           /\ dom[x].dir = "rtl"
           /\ dom[x].eff = "ltr"
    /\ \E y \in observedEditorElements :
           /\ InDom(dom[y])
           /\ dom[y].file # activeFile
           /\ dom[y].text # TextOfFile(dom[y].file)
           /\ dom[y].eff = C11_Effective(dom[y].dir, dom[y].text, settings)

\* The reclassification reaches the comparison of line 207 for editor x:
\* the editor passed the filters, its resolved setting is auto and
\* detection is enabled.
C24_Compares(x) ==
    /\ x \in timeoutId[1]
    /\ MutationConcerns(x, dom[x], observedEditorElements, activeFile)
    /\ UserDirectionForThisEditor(settings, activeNoteOverride) = "auto"
    /\ settings.enableAdvancedTextDetection

\* C24: when a mutation-driven reclassification detects the effective
\* direction the editor carries already, it leaves every attribute and every
\* class of the editor as it was; when the two differ it sets the
\* effective direction to the detected one and replaces the ltr-mode or
\* rtl-mode class by the class of the detected direction.  Nothing else of
\* the editor is written.
C24_RewritesOnlyOnChange ==
    [][C23_Reclassification =>
          \A x \in EditorEls :
              /\ dom'[x] # dom[x] =>
                     C24_Compares(x) /\ dom[x].eff # DetectedDirection(dom[x].text)
              /\ C24_Compares(x) =>
                     IF dom[x].eff = DetectedDirection(dom[x].text)
                     THEN dom'[x] = dom[x]
                     ELSE dom'[x] =
                              [dom[x] EXCEPT
                                  !.eff = DetectedDirection(dom[x].text),
                                  !.cls = (dom[x].cls \ {"ltr-mode", "rtl-mode"})
                                          \cup {ModeClass(DetectedDirection(dom[x].text))}]]_vars

\* One reclassification has run over two registered editors of the active
\* note, whose resolved setting is auto with detection enabled: the editor
\* that carried the detected direction keeps the two classes its last
\* application gave it, and the editor that carried rtl now carries the
\* detected direction and its class next to the data-direction rtl.
C24_Witness ==
    /\ Loaded
    /\ timeoutId = <<>>
    /\ windowLog.runs = 1
    /\ UserDirectionForThisEditor(settings, activeNoteOverride) = "auto"
    /\ settings.enableAdvancedTextDetection
    /\ \E x, y \in observedEditorElements :
           /\ windowLog.handled[x] = 1
           /\ windowLog.handled[y] = 1
           /\ dom[x].file = activeFile
           /\ dom[y].file = activeFile
           /\ dom[x].dir = "auto"
           /\ dom[x].eff = DetectedDirection(dom[x].text)
           /\ dom[x].cls = {"auto-detect-direction", ModeClass(dom[x].eff)}
           /\ dom[y].dir = "rtl"
           /\ dom[y].eff = DetectedDirection(dom[y].text)
           /\ dom[y].cls = {ModeClass(dom[y].eff)}

\* C25: the marking writes of a pass, of a targeted refresh and of a
\* reclassification are delivered to no watcher callback: a step that does
\* not edit the text of a note schedules no reclassification (the pending
\* call stays as it was, or it is the call that ran), and the step of a pass
\* leaves the pending call as it was.
C25_OwnWritesNotifyNobody ==
    [][/\ content' = content =>
              \/ timeoutId' = timeoutId
              \/ timeoutId # <<>> /\ timeoutId' = <<>>
       /\ PassStep => timeoutId' = timeoutId]_vars

\* A settings pass has written the concrete editor setting on an editor the
\* editor observer observes, and no reclassification is pending.
C25_Witness ==
    /\ Loaded
    /\ timeoutId = <<>>
    /\ settings.editor = "rtl"
    /\ \E x \in editorTargets \cap observedEditorElements :
           /\ InDom(dom[x])
           /\ dom[x].dir = "rtl"
           /\ dom[x].eff = "rtl"
           /\ dom[x].cls = {"rtl-mode"}

\* The text without the match of the first of the five patterns, in their
\* order from k on, that matches at its start; the text itself when none
\* matches.
RECURSIVE C26_StripFirstMatch(_, _)
C26_StripFirstMatch(k, s) ==
    IF k > 5 THEN s
    ELSE IF MatchPrefix(k, s) >= 0 THEN StripPrefix(s, MatchPrefix(k, s))
    ELSE C26_StripFirstMatch(k + 1, s)

\* The call reached the removal of the markdown prefixes: its argument is
\* a string that is not empty and does not start with a fence.
C26_Strips ==
    /\ detectedDir # "pending"
    /\ textBlock.type = "string"
    /\ textBlock.value # <<>>
    /\ ~StartsWithFence(textBlock.value)

\* C26 (as stated): the text the classifier goes on with after the removal
\* of the markdown prefixes is its argument without the first matching
\* marker; no further pattern is applied to what is left.
C26_AtMostOneMarkerStripped ==
    C26_Strips =>
        StripMarkdownPrefixes(textBlock.value) = C26_StripFirstMatch(1, textBlock.value)

\* The classifier has returned for a text that starts with a task-list
\* marker followed by a heading marker: the heading marker is matched by a
\* later pattern at the start of what the first removal left.
C26_Witness ==
    /\ C26_Strips
    /\ MatchTaskList(textBlock.value) >= 0
    /\ MatchHeading(StripPrefix(textBlock.value, MatchTaskList(textBlock.value))) >= 0

\* C27: every region of any kind to which a direction has been applied
\* carries exactly one of the classes ltr-mode and rtl-mode, and it is the
\* class of the direction its data-effective-direction attribute names.
C27_OneModeClassMatchingEffective ==
    \A x \in Els :
        (InDom(dom[x]) /\ dom[x].dir # "none") =>
            \E d \in {"ltr", "rtl"} :
                /\ dom[x].eff = d
                /\ dom[x].cls \cap {"ltr-mode", "rtl-mode"} = {d \o "-mode"}

\* A full pass, a targeted refresh and a reclassification have all acted:
\* the search results and a card carry the marking of a settings pass, an
\* editor that was refreshed to rtl has been reclassified to the detected
\* direction and carries the class of that direction only.
C27_Witness ==
    /\ Loaded
    /\ settings # DEFAULT_SETTINGS
    /\ dom[<<"searchResults", 0>>].dir = "auto"
    /\ \E c \in CardEls : InDom(dom[c]) /\ dom[c].dir = settings.canvasCard
    /\ \E x \in observedEditorElements :
           /\ InDom(dom[x])
           /\ dom[x].dir = "rtl"
           /\ dom[x].eff = "ltr"
           /\ dom[x].cls = {"ltr-mode"}

\* C28: once onunload has run both registry sets are empty and neither
\* observer observes a node, and the deferred reclassification that was
\* pending at unload leaves every region as it was when it fires.
C28_UnloadedPluginIsInert ==
    [][/\ pc' = "unloaded" =>
              /\ observedEditorElements' = {}
              /\ observedCanvasContainers' = {}
              /\ editorTargets' = {}
              /\ canvasTargets' = {}
       /\ (pc = "unloaded" /\ timeoutId # <<>> /\ timeoutId' = <<>>) => dom' = dom]_vars

\* The plugin was unloaded while a reclassification was pending whose batch
\* holds an editor of the active note that resolves to auto with detection
\* enabled and carries another direction than the detected one; the canvas
\* container was registered before the unload.
C28_Witness ==
    /\ pc = "unloaded"
    /\ timeoutId # <<>>
    /\ InDom(dom[CanvasNodes])
    /\ \E c \in CardEls : dom[c].dir # "none"
    /\ UserDirectionForThisEditor(settings, activeNoteOverride) = "auto"
    /\ settings.enableAdvancedTextDetection
    /\ \E x \in timeoutId[1] :
           /\ InDom(dom[x])
           /\ dom[x].file = activeFile
           /\ dom[x].eff # DetectedDirection(dom[x].text)

\* The direction setting editor x resolves to: the override when the editor
\* shows the active document and an override is set, the editor default
\* otherwise.
C29_Resolved(x) ==
    IF activeNoteOverride # "null" /\ IsMarkdown(activeFile) /\ dom[x].file = activeFile
    THEN activeNoteOverride
    ELSE settings.editor

\* C29: a mutation-driven reclassification leaves every editor as it was
\* whose resolved setting is ltr or rtl, and every editor while detection is
\* disabled, the editors that an earlier pass registered among them.
C29_ConcreteOrUndetectedUntouched ==
    [][C23_Reclassification =>
          \A x \in EditorEls :
              (C29_Resolved(x) \in {"ltr", "rtl"} \/ ~settings.enableAdvancedTextDetection) =>
                  dom'[x] = dom[x]]_vars

\* One reclassification has run, over an editor of the active note that an
\* earlier pass registered; detection is disabled, and the editor carries
\* the fallback direction rtl of its last pass although its text is
\* detected as ltr.
C29_Witness ==
    /\ Loaded
    /\ timeoutId = <<>>
    /\ windowLog.calls = 1
    /\ windowLog.runs = 1
    /\ windowLog.elapsed = Delay
    /\ ~settings.enableAdvancedTextDetection
    /\ \E x \in observedEditorElements :
           /\ windowLog.handled[x] = 1
           /\ dom[x].file = activeFile
           /\ dom[x].dir = "auto"
           /\ dom[x].eff = "rtl"
           /\ DetectedDirection(dom[x].text) = "ltr"

\* The notices of a rejected override command.
C30_Rejections ==
    {"Open a markdown note to change its direction.",
     "Direction can only be set for Markdown files.",
     "No active file."}

\* C30: while there is no active file or the active file is not a markdown
\* note, a click on the status bar item and each of the four commands show
\* a notice and change nothing else: the override, the stored directions,
\* the pending writes and every region stay as they were.
C30_RejectedWithoutEffect ==
    [][((StatusBarClick \/ Command) /\ ~IsMarkdown(activeFile)) =>
          /\ notice' \in C30_Rejections
          /\ notice' = "No active file." => activeFile = "none"
          /\ UNCHANGED <<activeNoteOverride, fm, writes, dom, timeoutId, settings,
                         observedEditorElements, observedCanvasContainers, activeLeaf,
                         activeFile>>]_vars

\* An image is the active file and a command was rejected; an open editor
\* still carries the rtl that was applied to it, the stored directions are
\* those of the start, no override is set and nothing is waiting to be
\* written.
C30_Witness ==
    /\ Loaded
    /\ activeFile = "I"
    /\ notice = "Direction can only be set for Markdown files."
    /\ activeNoteOverride = "null"
    /\ writes = <<>>
    /\ fm = InitialFrontmatter
    /\ \E x \in EditorEls : InDom(dom[x]) /\ dom[x].dir = "rtl" /\ dom[x].eff = "rtl"

====
